---- MODULE Spec2Model ----
(***************************************************************************)
(* Session multiplexing and streaming subsystem of aws_connector:          *)
(*   - the terminal session registry, its command handlers and the PTY     *)
(*     output streamer (src-tauri/src/terminal, commands/terminal_commands) *)
(*   - the log-tail registry and its poller (src-tauri/src/logs/session.rs, *)
(*     aws/cloudwatch.rs tail_log_events, commands/logs_commands.rs)        *)
(* The two halves share no state; SpecTerm runs the first, SpecLog the     *)
(* second.                                                                 *)
(***************************************************************************)
EXTENDS Integers, Sequences, FiniteSets, TLC

\* ------------------------------------------------------------------ bounds
\* Terminal sessions that are ever created (ids are fresh uuids, never reused).
MaxSessions == 2
\* Command invocations (other than create) over a run of the terminal half.
MaxCalls == 3
\* Command invocations (other than create) while the streamers are watched.
MaxStreamCalls == 2
\* Bytes the child of one session produces on its output stream.
MaxOut == 2
\* Log-tail sessions that are ever created.
MaxLogSessions == 2
\* stop/list invocations over a run of the log-tail half.
MaxLogCalls == 2
\* Log events that are ever ingested into the log group.
MaxIngest == 2
\* Largest event timestamp (ms, relative to the origin of the model's clock).
MaxTs == 1
\* Queries the pollers issue, all together.
MaxPolls == 2
\* Session objects that are ever handed to a registry's create_session.
MaxObjs == 3
\* Queries the pollers that run on issue while their scheduling is fair.
MaxFairPolls == 1
MaxFairCalls == 2

\* ------------------------------------------------------- program constants
DEFAULT_COLS == 80
DEFAULT_ROWS == 24
BUFFER_SIZE == 4096
LOOKBACK_MS == 30000

Threads == {"t1", "t2"}
TermIds == 1..MaxSessions
NoId == 0

Min(a, b) == IF a < b THEN a ELSE b

\* ----------------------------------------------------------------- base64
\* A base64 text is a sequence of symbol codes: 0..63 are the alphabet
\* A-Za-z0-9+/ in order, Pad is '=', BadSym is any character outside both.
Pad == 64
BadSym == 65

RECURSIVE B64Encode(_)
B64Encode(bs) ==
    IF Len(bs) = 0 THEN <<>>
    ELSE IF Len(bs) = 1 THEN
        << bs[1] \div 4, (bs[1] % 4) * 16, Pad, Pad >>
    ELSE IF Len(bs) = 2 THEN
        << bs[1] \div 4, (bs[1] % 4) * 16 + (bs[2] \div 16), (bs[2] % 16) * 4, Pad >>
    ELSE
        << bs[1] \div 4, (bs[1] % 4) * 16 + (bs[2] \div 16),
           (bs[2] % 16) * 4 + (bs[3] \div 64), bs[3] % 64 >>
        \o B64Encode(SubSeq(bs, 4, Len(bs)))

\* One quantum of four symbols; last = it is the final quantum of the text.
B64QuadOk(q, last) ==
    /\ q[1] < Pad /\ q[2] < Pad
    /\ q[3] <= Pad /\ q[4] <= Pad
    /\ (q[3] = Pad => q[4] = Pad)
    /\ (q[4] = Pad => last)
    /\ (q[3] = Pad => q[2] % 16 = 0)
    /\ (q[3] < Pad /\ q[4] = Pad => q[3] % 4 = 0)

B64QuadBytes(q) ==
    LET b1 == q[1] * 4 + (q[2] \div 16)
        b2 == (q[2] % 16) * 16 + (q[3] \div 4)
        b3 == (q[3] % 4) * 64 + q[4]
    IN  IF q[3] = Pad THEN << b1 >>
        ELSE IF q[4] = Pad THEN << b1, b2 >>
        ELSE << b1, b2, b3 >>

RECURSIVE B64TextOk(_)
B64TextOk(t) ==
    IF Len(t) = 0 THEN TRUE
    ELSE /\ Len(t) >= 4
         /\ B64QuadOk(SubSeq(t, 1, 4), Len(t) = 4)
         /\ B64TextOk(SubSeq(t, 5, Len(t)))

RECURSIVE B64Bytes(_)
B64Bytes(t) ==
    IF Len(t) = 0 THEN <<>>
    ELSE B64QuadBytes(SubSeq(t, 1, 4)) \o B64Bytes(SubSeq(t, 5, Len(t)))

\* BASE64.decode: Err on a bad length, symbol, padding or trailing bits.
B64Decode(t) ==
    IF B64TextOk(t) THEN [ok |-> TRUE, bytes |-> B64Bytes(t)]
    ELSE [ok |-> FALSE, bytes |-> <<>>]

\* ------------------------------------------------------------------ state
VARIABLES
    sessions,    \* SESSIONS.sessions: the ids that have an entry in the map
    mapLock,     \* holder of the map's mutex, or "free"
    sessLock,    \* per session object: holder of its mutex, or "free"
    pty,         \* per session object: the PtySession fields
    child,       \* per session: "none" | "alive" | "dead"
    out,         \* per session: every byte the child produced so far
    rd,          \* per session: how many of them the reader has returned
    stPc,        \* per session: the streamer thread, "none" | "reading" | "done"
    events,      \* per session: the events emitted for it, in order
    th,          \* per caller thread: the command it runs and where it is
    nextId,      \* the next fresh session id
    calls        \* command invocations still allowed (other than create)

termVars == << sessions, mapLock, sessLock, pty, child, out, rd, stPc, events,
               th, nextId, calls >>

\* The state of the log-tail half.
VARIABLES
    logSessions, \* LOG_TAIL_REGISTRY.sessions: the ids that have an entry
    logMapLock,  \* holder of that map's mutex, or "free"
    lts,         \* per session object: the LogTailSession fields
    chan,        \* per session: the shutdown one-shot, "empty" | "sent" | "taken"
    pl,          \* per session: the poller task (run_log_tail)
    sink,        \* per session: the events emitted for it, in order
    logGroup,    \* the events of the tailed log group
    lth,         \* per caller thread: the command it runs and where it is
    nextLogId,   \* the next fresh session id
    logCalls,    \* stop/list invocations still allowed
    polls,       \* queries the pollers may still issue
    hist         \* per session: what happened since stop_session returned,
                 \* whether every answer of the log source was the exact one,
                 \* and which came first, the return of stop_session ("stop")
                 \* or the first loop-top check of the poller ("check")

logVars == << logSessions, logMapLock, lts, chan, pl, sink, logGroup,
              lth, nextLogId, logCalls, polls, hist >>

\* The state of the two finer views: the registry's map with the session
\* objects it holds, and the progress of a write_all.
VARIABLES
    regMap,      \* the HashMap of a registry: per key the object it holds
    regObjs,     \* the session objects built so far: the info.id of each
    regCall,     \* the latest call on the map and what it returned
    wr,          \* per caller thread: bytes its write_all has passed on
    cmd          \* a CreateSessionInput and the command line built for it

fineVars == << regMap, regObjs, regCall, wr, cmd >>

vars == << termVars, logVars, fineVars >>

\* Inputs of the commands.
Payloads == { B64Encode(<< 104, 105 >>), B64Encode(<< 10 >>),
              << 26, BadSym, 0, 0 >>, << 26, 6 >> }
Geoms == { << 120, 40 >>, << 132, 43 >> }
\* The k-th byte a child produces: all different, so that a chunk that is
\* dropped, repeated or out of place shows in what was published.
OutByte(k) == (k * 85) % 256
\* The inputs the commands get while the streamers are watched.
StreamPayloads == { B64Encode(<< 10 >>) }
StreamGeoms == { << 120, 40 >> }
StreamThreads == { "t1" }

NoSession == [status |-> "None", cols |-> 0, rows |-> 0, input |-> <<>>,
              kills |-> 0, reader |-> FALSE, win |-> << 0, 0 >>]
NoRes == [tag |-> "none", val |-> {}]
IdleTh == [op |-> "none", pc |-> "idle", id |-> NoId, data |-> <<>>,
           geom |-> << 0, 0 >>, todo |-> {}, snap |-> {}, res |-> NoRes]

\* Mutant: every summary carries the id of the first session.
InfoOfFirst(s, id) == [id |-> 1, status |-> s.status]

\* The serialisable summary of a session (SessionInfo): id and status.
Info(s, id) == [id |-> id, status |-> s.status]

Ok == [tag |-> "ok", val |-> {}]
Err(tag) == [tag |-> tag, val |-> {}]

\* A call returns: the thread is idle again and keeps the call's result.
Return(t, r) == [th EXCEPT ![t].pc = "idle", ![t].res = r, ![t].data = <<>>,
                           ![t].geom = << 0, 0 >>, ![t].todo = {}, ![t].snap = {}]

\* Mutant: the error is dropped and the call goes on to start and register.
RefuseGoesOn(op, id, r) ==
    [IdleTh EXCEPT !.op = op, !.id = id, !.pc = "c_start"]

\* A call returns at its first step, with nothing but its result.
Refuse(op, id, r) == [IdleTh EXCEPT !.op = op, !.id = id, !.res = r]

Begin(op, pc, id, data, geom) ==
    [op |-> op, pc |-> pc, id |-> id, data |-> data, geom |-> geom,
     todo |-> {}, snap |-> {}, res |-> NoRes]

TermBase ==
    /\ sessions = {}
    /\ mapLock = "free"
    /\ sessLock = [i \in TermIds |-> "free"]
    /\ pty = [i \in TermIds |-> NoSession]
    /\ child = [i \in TermIds |-> "none"]
    /\ out = [i \in TermIds |-> <<>>]
    /\ rd = [i \in TermIds |-> 0]
    /\ stPc = [i \in TermIds |-> "none"]
    /\ events = [i \in TermIds |-> <<>>]
    /\ th = [t \in Threads |-> IdleTh]
    /\ nextId = 1

\* ---------------------------------------------------- SessionRegistry (map)
RegistryInsert(m, id) == m \cup {id}
RegistryGet(m, id) == id \in m
\* Mutant: the pop that leaves the entry in the map.
RegistryRemoveKeeps(m, id) == m
\* Mutant: the pop that empties the map.
RegistryRemoveAll(m, id) == {}
RegistryRemove(m, id) == m \ {id}

\* Mutant: the lock that lets everybody in.
CanLockAlways(holder) == TRUE

\* session.lock() of a parking_lot Mutex returns only while nobody holds it.
CanLock(holder) == holder = "free"

\* --------------------------------------------------------------- pty.rs
\* create_pty_session: a session with the reader still inside it; win is the
\* size the terminal device was opened with (openpty(PtySize { .. })).
NewPtySession ==
    [status |-> "Starting", cols |-> DEFAULT_COLS, rows |-> DEFAULT_ROWS,
     input |-> <<>>, kills |-> 0, reader |-> TRUE,
     win |-> << DEFAULT_COLS, DEFAULT_ROWS >>]

\* Mutant: the resize is passed on to the terminal device.
ResizePtyNotifies(s, cols, rows) ==
    [s EXCEPT !.cols = cols, !.rows = rows, !.win = << cols, rows >>]

\* resize_pty: the stored geometry only.
ResizePty(s, cols, rows) == [s EXCEPT !.cols = cols, !.rows = rows]

\* Mutant: write_all passes nothing on.
WriteToPtyNothing(s, bytes, wrote) == s

\* write_to_pty: write_all then flush. wrote is the number of bytes write_all
\* had passed on when it returned (all of them unless it failed).
WriteToPty(s, bytes, wrote) ==
    [s EXCEPT !.input = @ \o SubSeq(bytes, 1, wrote)]

\* Mutant: a failed write_all or flush is reported as success.
WriteResultSwallows(outcome) == Ok

WriteResult(outcome) ==
    IF outcome = "ok" THEN Ok ELSE Err("WriteFailed")

\* Mutant: the whole buffer is encoded, not the n bytes that were read.
OutputPayloadWhole(buffer, n) == B64Encode(buffer)

\* The payload of one "output" event: base64 of buffer[..n].
OutputPayload(buffer, n) == B64Encode(SubSeq(buffer, 1, n))

\* app_handle.emit("terminal:<kind>:<id>", payload): the payload is base64
\* text ("output"), a description ("error") or nothing ("closed").
Emit(evs, kind, data, text) ==
    Append(evs, [kind |-> kind, data |-> data, text |-> text])

\* ------------------------------------------------ terminal_create_session
CreateOutcomes == { "ok", "PtyCreationFailed", "SpawnFailed" }

\* The uuid, the info with status Starting, and create_pty_session, which
\* fails (the ? returns the error, nothing is kept) or spawns the child.
CreatePty(t, outcome) ==
    /\ th[t].pc = "idle"
    /\ nextId <= MaxSessions
    /\ nextId' = nextId + 1
    /\ IF outcome = "ok"
       THEN /\ pty' = [pty EXCEPT ![nextId] = NewPtySession]
            /\ child' = [child EXCEPT ![nextId] = "alive"]
            /\ th' = [th EXCEPT ![t] =
                        Begin("create", "c_start", nextId, <<>>, << 0, 0 >>)]
       ELSE /\ th' = [th EXCEPT ![t] =
                        Refuse("create", nextId, Err(outcome))]
            /\ UNCHANGED << pty, child >>
    /\ UNCHANGED << sessions, mapLock, sessLock, out, rd, stPc, events, calls, logVars, fineVars >>

\* Mutant: the reader stays in the session.
TakeReaderLeaves(s) == s

\* session.reader.take(): what is left in the session.
TakeReader(s) == [s EXCEPT !.reader = FALSE]

\* session.reader.take(), start_output_stream, status = Running.
CreateStart(t) ==
    LET id == th[t].id IN
    /\ th[t].pc = "c_start"
    /\ stPc' = IF pty[id].reader THEN [stPc EXCEPT ![id] = "reading"] ELSE stPc
    /\ pty' = [pty EXCEPT ![id] = [TakeReader(pty[id]) EXCEPT !.status = "Running"]]
    /\ th' = [th EXCEPT ![t].pc = "c_register"]
    /\ UNCHANGED << sessions, mapLock, sessLock, child, out, rd, events,
                    nextId, calls, logVars, fineVars >>

\* SESSIONS.create_session(session) and the Ok(CreateSessionOutput).
CreateRegister(t) ==
    LET id == th[t].id IN
    /\ th[t].pc = "c_register"
    /\ mapLock = "free"
    /\ sessions' = RegistryInsert(sessions, id)
    /\ th' = Return(t, [tag |-> "ok", val |-> { Info(pty[id], id) }])
    /\ UNCHANGED << mapLock, sessLock, pty, child, out, rd, stPc, events,
                    nextId, calls, logVars, fineVars >>

\* --------------------------------------------------------- terminal_write
\* get_session (or not found), then BASE64.decode (or decode error).
WriteLookup(t, id, data) ==
    /\ th[t].pc = "idle"
    /\ calls > 0
    /\ calls' = calls - 1
    /\ mapLock = "free"
    /\ th' = [th EXCEPT ![t] =
                IF ~RegistryGet(sessions, id)
                THEN Refuse("write", id, Err("NotFound"))
                ELSE IF ~B64Decode(data).ok
                THEN Refuse("write", id, Err("DecodeError"))
                ELSE Begin("write", "w_lock", id, data, << 0, 0 >>)]
    /\ UNCHANGED << sessions, mapLock, sessLock, pty, child, out, rd, stPc,
                    events, nextId, logVars, fineVars >>

\* session.lock()
WriteLock(t) ==
    /\ th[t].pc = "w_lock"
    /\ CanLock(sessLock[th[t].id])
    /\ sessLock' = [sessLock EXCEPT ![th[t].id] = t]
    /\ th' = [th EXCEPT ![t].pc = "w_io"]
    /\ UNCHANGED << sessions, mapLock, pty, child, out, rd, stPc, events,
                    nextId, calls, logVars, fineVars >>

WriteOutcomes == { "ok", "write_err", "flush_err" }

\* Mutant: the guard is kept after the call.
UnlockForgets(locks, id) == locks

\* The MutexGuard of session id goes out of scope.
Unlock(locks, id) == [locks EXCEPT ![id] = "free"]

\* write_to_pty under the lock; the guard is dropped on return.
WriteIo(t, outcome, wrote) ==
    LET id == th[t].id
        bytes == B64Decode(th[t].data).bytes
    IN
    /\ th[t].pc = "w_io"
    /\ wrote \in 0..Len(bytes)
    /\ (outcome = "write_err") <=> (wrote < Len(bytes))
    /\ pty' = [pty EXCEPT ![id] = WriteToPty(pty[id], bytes, wrote)]
    /\ sessLock' = Unlock(sessLock, id)
    /\ th' = Return(t, WriteResult(outcome))
    /\ UNCHANGED << sessions, mapLock, child, out, rd, stPc, events, nextId,
                    calls, logVars, fineVars >>

\* write_to_pty seen byte by byte: write_all passes on the next byte.
WriteByte(t) ==
    LET id == th[t].id
        bytes == B64Decode(th[t].data).bytes
    IN
    /\ th[t].pc = "w_io"
    /\ wr[t] < Len(bytes)
    /\ pty' = [pty EXCEPT ![id] = WriteToPty(pty[id], << bytes[wr[t] + 1] >>, 1)]
    /\ wr' = [wr EXCEPT ![t] = @ + 1]
    /\ UNCHANGED << sessions, mapLock, sessLock, child, out, rd, stPc, events,
                    th, nextId, calls, regMap, regObjs, regCall, cmd, logVars >>

\* write_all failed before the last byte, or it is done and flush succeeded
\* or failed; the guard is dropped on return.
WriteEnd(t, outcome) ==
    LET id == th[t].id
        bytes == B64Decode(th[t].data).bytes
    IN
    /\ th[t].pc = "w_io"
    /\ (outcome = "write_err") <=> (wr[t] < Len(bytes))
    /\ sessLock' = Unlock(sessLock, id)
    /\ th' = Return(t, WriteResult(outcome))
    /\ wr' = [wr EXCEPT ![t] = 0]
    /\ UNCHANGED << sessions, mapLock, pty, child, out, rd, stPc, events,
                    nextId, calls, regMap, regObjs, regCall, cmd, logVars >>

\* -------------------------------------------------------- terminal_resize
ResizeLookup(t, id, geom) ==
    /\ th[t].pc = "idle"
    /\ calls > 0
    /\ calls' = calls - 1
    /\ mapLock = "free"
    /\ th' = [th EXCEPT ![t] =
                IF ~RegistryGet(sessions, id)
                THEN Refuse("resize", id, Err("NotFound"))
                ELSE Begin("resize", "r_do", id, <<>>, geom)]
    /\ UNCHANGED << sessions, mapLock, sessLock, pty, child, out, rd, stPc,
                    events, nextId, logVars, fineVars >>

\* session.lock(); resize_pty; the guard is dropped on return.
ResizeDo(t) ==
    LET id == th[t].id IN
    /\ th[t].pc = "r_do"
    /\ CanLock(sessLock[id])
    /\ pty' = [pty EXCEPT ![id] = ResizePty(pty[id], th[t].geom[1], th[t].geom[2])]
    /\ th' = Return(t, Ok)
    /\ UNCHANGED << sessions, mapLock, sessLock, child, out, rd, stPc, events,
                    nextId, calls, logVars, fineVars >>

\* --------------------------------------------------------- terminal_close
\* SESSIONS.remove_session: the pop; None returns Ok at once.
CloseRemove(t, id) ==
    /\ th[t].pc = "idle"
    /\ calls > 0
    /\ calls' = calls - 1
    /\ mapLock = "free"
    /\ sessions' = RegistryRemove(sessions, id)
    /\ th' = [th EXCEPT ![t] =
                IF RegistryGet(sessions, id)
                THEN Begin("close", "cl_kill", id, <<>>, << 0, 0 >>)
                ELSE Refuse("close", id, Ok)]
    /\ UNCHANGED << mapLock, sessLock, pty, child, out, rd, stPc, events,
                    nextId, logVars, fineVars >>

\* Mutant: close puts the session back to Starting.
MarkClosedRestarts(s) == [s EXCEPT !.status = "Starting"]

\* session.info.status = SessionStatus::Closed
MarkClosed(s) == [s EXCEPT !.status = "Closed"]

\* Mutant: close forgets the kill.
KillChildForgotten(s) == s

\* let _ = session.child.kill(): the kill is requested, its result ignored.
KillChild(s) == [s EXCEPT !.kills = @ + 1]

\* child.kill(): an error when the child has exited already.
KillResult(c) == IF c = "alive" THEN Ok ELSE Err("KillFailed")

\* Mutant: the error of kill is returned to the caller.
CloseResultOfKill(killed) == killed

\* let _ = ..; Ok(()): what terminal_close returns, whatever kill said.
CloseResult(killed) == Ok

\* session.lock(); status = Closed; child.kill() with its result ignored.
CloseKill(t) ==
    LET id == th[t].id IN
    /\ th[t].pc = "cl_kill"
    /\ CanLock(sessLock[id])
    /\ pty' = [pty EXCEPT ![id] = KillChild(MarkClosed(pty[id]))]
    /\ th' = Return(t, CloseResult(KillResult(child[id])))
    /\ UNCHANGED << sessions, mapLock, sessLock, child, out, rd, stPc, events,
                    nextId, calls, logVars, fineVars >>

\* --------------------------------------------------- terminal_get_session
GetLookup(t, id) ==
    /\ th[t].pc = "idle"
    /\ calls > 0
    /\ calls' = calls - 1
    /\ mapLock = "free"
    /\ th' = [th EXCEPT ![t] =
                IF ~RegistryGet(sessions, id)
                THEN Refuse("get", id, Err("NotFound"))
                ELSE Begin("get", "g_info", id, <<>>, << 0, 0 >>)]
    /\ UNCHANGED << sessions, mapLock, sessLock, pty, child, out, rd, stPc,
                    events, nextId, logVars, fineVars >>

\* session.lock().info.clone()
GetInfo(t) ==
    LET id == th[t].id IN
    /\ th[t].pc = "g_info"
    /\ CanLock(sessLock[id])
    /\ th' = Return(t, [tag |-> "ok", val |-> { Info(pty[id], id) }])
    /\ UNCHANGED << sessions, mapLock, sessLock, pty, child, out, rd, stPc,
                    events, nextId, calls, logVars, fineVars >>

\* ------------------------------------- terminal_list_sessions / list_sessions
\* self.sessions.lock(): the map guard lives until collect() is done.
ListBegin(t) ==
    /\ th[t].pc = "idle"
    /\ calls > 0
    /\ calls' = calls - 1
    /\ mapLock = "free"
    /\ mapLock' = t
    /\ th' = [th EXCEPT ![t] =
                [Begin("list", "l_visit", NoId, <<>>, << 0, 0 >>)
                    EXCEPT !.todo = sessions]]
    /\ UNCHANGED << sessions, sessLock, pty, child, out, rd, stPc, events,
                    nextId, logVars, fineVars >>

\* One element of values(): s.lock().info.clone().
ListVisit(t, id) ==
    /\ th[t].pc = "l_visit"
    /\ id \in th[t].todo
    /\ CanLock(sessLock[id])
    /\ th' = [th EXCEPT ![t].todo = @ \ {id},
                        ![t].snap = @ \cup { Info(pty[id], id) }]
    /\ UNCHANGED << sessions, mapLock, sessLock, pty, child, out, rd, stPc,
                    events, nextId, calls, logVars, fineVars >>

ListEnd(t) ==
    /\ th[t].pc = "l_visit"
    /\ th[t].todo = {}
    /\ mapLock' = "free"
    /\ th' = Return(t, [tag |-> "ok", val |-> th[t].snap])
    /\ UNCHANGED << sessions, sessLock, pty, child, out, rd, stPc, events,
                    nextId, calls, logVars, fineVars >>

\* ------------------------------------------------- the child and its stream
\* The child writes one more byte to its side of the terminal.
ChildOutput(id) ==
    /\ child[id] = "alive"
    /\ Len(out[id]) < MaxOut
    /\ out' = [out EXCEPT ![id] = Append(@, OutByte(Len(@) + 1))]
    /\ UNCHANGED << sessions, mapLock, sessLock, pty, child, rd, stPc, events,
                    th, nextId, calls, logVars, fineVars >>

\* The child exits, by itself or because it was killed.
ChildExit(id) ==
    /\ child[id] = "alive"
    /\ child' = [child EXCEPT ![id] = "dead"]
    /\ UNCHANGED << sessions, mapLock, sessLock, pty, out, rd, stPc, events,
                    th, nextId, calls, logVars, fineVars >>

\* ------------------------------------------------------ start_output_stream
\* Mutant: the streamer reads under the session's lock and the map lock.
StreamLocksBoth(id) == { sessLock[id], mapLock }

\* The locks whose holders the streamer thread waits for before a read: none
\* (the thread owns the reader and the app handle and nothing else).
StreamLocks(id) == {}

\* reader.read(&mut buffer) returned Ok(n), n > 0: one "output" event.
StreamRead(id, n) ==
    LET buffer == SubSeq(out[id], rd[id] + 1, Len(out[id])) IN
    /\ stPc[id] = "reading"
    /\ \A holder \in StreamLocks(id) : CanLock(holder)
    /\ n \in 1..Min(Len(buffer), BUFFER_SIZE)
    /\ events' = [events EXCEPT ![id] = Emit(@, "output", OutputPayload(buffer, n), "")]
    /\ rd' = [rd EXCEPT ![id] = @ + n]
    /\ UNCHANGED << sessions, mapLock, sessLock, pty, child, out, stPc, th,
                    nextId, calls, logVars, fineVars >>

\* Mutant: no break after a terminal event.
AfterTerminalLoops == "reading"

\* Where the streamer goes after a terminal event: out of its loop.
AfterTerminal == "done"

\* Mutant: the streamer marks the session Closed when it ends.
StreamEndCloses(s) == [s EXCEPT !.status = "Closed"]

\* What the end of the streamer does to the session: nothing (the thread has
\* the reader, the app handle and the id, and no handle of the session).
StreamEnd(s) == s

\* Ok(0): the stream ended (the child is gone and every byte was read).
StreamEof(id) ==
    /\ stPc[id] = "reading"
    /\ \A holder \in StreamLocks(id) : CanLock(holder)
    /\ child[id] = "dead"
    /\ rd[id] = Len(out[id])
    /\ events' = [events EXCEPT ![id] = Emit(@, "closed", <<>>, "")]
    /\ stPc' = [stPc EXCEPT ![id] = AfterTerminal]
    /\ pty' = [pty EXCEPT ![id] = StreamEnd(@)]
    /\ UNCHANGED << sessions, mapLock, sessLock, child, out, rd, th,
                    nextId, calls, logVars, fineVars >>

\* What a failed read can report.
ReadErrors == { "Input/output error", "Interrupted system call" }

\* Err(e): the read failed (the terminal hung up once the child was gone, or
\* the call was interrupted); the "error" event carries e.to_string().
StreamErr(id, e) ==
    /\ stPc[id] = "reading"
    /\ \A holder \in StreamLocks(id) : CanLock(holder)
    /\ events' = [events EXCEPT ![id] = Emit(@, "error", <<>>, e)]
    /\ stPc' = [stPc EXCEPT ![id] = AfterTerminal]
    /\ pty' = [pty EXCEPT ![id] = StreamEnd(@)]
    /\ UNCHANGED << sessions, mapLock, sessLock, child, out, rd, th,
                    nextId, calls, logVars, fineVars >>

\* The commands of the caller threads T, with their inputs drawn from P
\* (payloads) and G (geometries).
Commands(T, P, G) ==
    \/ \E t \in T, o \in CreateOutcomes : CreatePty(t, o)
    \/ \E t \in T : CreateStart(t)
    \/ \E t \in T : CreateRegister(t)
    \/ \E t \in T, id \in TermIds, d \in P : WriteLookup(t, id, d)
    \/ \E t \in T : WriteLock(t)
    \/ \E t \in T, o \in WriteOutcomes :
          \E w \in 0..Len(B64Decode(th[t].data).bytes) : WriteIo(t, o, w)
    \/ \E t \in T, id \in TermIds, g \in G : ResizeLookup(t, id, g)
    \/ \E t \in T : ResizeDo(t)
    \/ \E t \in T, id \in TermIds : CloseRemove(t, id)
    \/ \E t \in T : CloseKill(t)
    \/ \E t \in T, id \in TermIds : GetLookup(t, id)
    \/ \E t \in T : GetInfo(t)
    \/ \E t \in T : ListBegin(t)
    \/ \E t \in T, id \in TermIds : ListVisit(t, id)
    \/ \E t \in T : ListEnd(t)

\* The children and the streamer threads.
Streaming ==
    \/ \E id \in TermIds : ChildOutput(id)
    \/ \E id \in TermIds : ChildExit(id)
    \/ \E id \in TermIds, n \in 1..MaxOut : StreamRead(id, n)
    \/ \E id \in TermIds : StreamEof(id)
    \/ \E id \in TermIds, e \in ReadErrors : StreamErr(id, e)

TermNext == Commands(Threads, Payloads, Geoms)

StreamNext == Commands(StreamThreads, StreamPayloads, StreamGeoms) \/ Streaming

\* ======================================================== the log-tail half

LogIds == 1..MaxLogSessions
Stamps == 0..MaxTs
\* When a poller starts: the clock reads LOOKBACK_MS plus one of these.
StartOffsets == { 0, 1 }
\* The caller threads while the pollers are watched.
PollThreads == { "t1" }

NoLogSession == [status |-> "None", stop_signal |-> FALSE, shutdown_tx |-> FALSE]
NoPoller == [pc |-> "none", last |-> 0, since |-> 0]
NoHist == [stopped |-> FALSE, issued |-> 0, outs |-> 0, exact |-> TRUE,
           first |-> "none"]
IdleLth == [op |-> "none", pc |-> "idle", id |-> NoId, todo |-> {}, snap |-> {},
            res |-> NoRes]

LogBegin(op, pc, id) ==
    [op |-> op, pc |-> pc, id |-> id, todo |-> {}, snap |-> {}, res |-> NoRes]
LogReturn(t, r) == [lth EXCEPT ![t].pc = "idle", ![t].res = r,
                               ![t].todo = {}, ![t].snap = {}]

\* The log-tail half after construction, but for its budgets.
LogFields ==
    /\ logSessions = {}
    /\ logMapLock = "free"
    /\ lts = [i \in LogIds |-> NoLogSession]
    /\ chan = [i \in LogIds |-> "empty"]
    /\ pl = [i \in LogIds |-> NoPoller]
    /\ sink = [i \in LogIds |-> <<>>]
    /\ logGroup = {}
    /\ lth = [t \in Threads |-> IdleLth]
    /\ nextLogId = 1
    /\ hist = [i \in LogIds |-> NoHist]

LogBase == LogFields /\ polls = MaxPolls

LogInit == LogBase /\ logCalls = MaxLogCalls

\* The summary list_sessions returns (LogTailSessionInfo): id and status.
LogInfo(s, id) == [id |-> id, status |-> s.status]

\* ---------------------------------------------------------- LogTailSession
\* The session create_session builds: Running, flag unset, sender present.
NewLogSession == [status |-> "Running", stop_signal |-> FALSE, shutdown_tx |-> TRUE]

\* LogTailSession::stop: the flag is stored, the sender is taken.
SessionStop(s) == [s EXCEPT !.stop_signal = TRUE, !.shutdown_tx = FALSE]

\* Mutant: stop stores the flag and fires nothing.
StopSendNever(s, c) == c

\* tx.send(()) of stop, when the sender was still there.
StopSend(s, c) == IF s.shutdown_tx /\ c = "empty" THEN "sent" ELSE c

\* ----------------------------------------------------- cloudwatch.rs, tail
MaxStamp(batch) == CHOOSE m \in { e.ts : e \in batch } :
                        \A e \in batch : e.ts <= m

\* Mutant: the next watermark is the max timestamp itself.
NewTimestampNoStep(batch, since) ==
    IF batch = {} THEN since ELSE MaxStamp(batch)

\* new_timestamp of tail_log_events: max timestamp + 1, or since_timestamp.
NewTimestamp(batch, since) ==
    IF batch = {} THEN since ELSE MaxStamp(batch) + 1

\* The answer of a log source that returns exactly the events at or after
\* start_time = since.
ExactAnswer(since) == { e \in logGroup : e.ts >= since }

\* What filter_log_events may answer: any events of the group.
Answers(since) == SUBSET logGroup

\* ------------------------------------ start_log_tail / create_session (logs)
\* The channel, the flag, the info, and the insert into the map.
LogCreateInsert(t) ==
    /\ lth[t].pc = "idle"
    /\ nextLogId <= MaxLogSessions
    /\ logMapLock = "free"
    /\ nextLogId' = nextLogId + 1
    /\ lts' = [lts EXCEPT ![nextLogId] = NewLogSession]
    /\ logSessions' = RegistryInsert(logSessions, nextLogId)
    /\ lth' = [lth EXCEPT ![t] = LogBegin("start", "lc_spawn", nextLogId)]
    /\ UNCHANGED << logMapLock, chan, pl, sink, logGroup,
                    logCalls, hist, polls, termVars, fineVars >>

\* last_timestamp = now - 30_000
InitialWatermark(now) == now - LOOKBACK_MS

\* tokio::spawn(run_log_tail(..)) and the returned id; the task starts by
\* taking its first watermark from the clock.
LogCreateSpawn(t, now) ==
    /\ lth[t].pc = "lc_spawn"
    /\ pl' = [pl EXCEPT ![lth[t].id].pc = "top",
                        ![lth[t].id].last = InitialWatermark(now)]
    /\ lth' = LogReturn(t, [tag |-> "ok", val |-> { lth[t].id }])
    /\ UNCHANGED << logSessions, logMapLock, lts, chan, sink, logGroup,
                    nextLogId, logCalls, hist, polls, termVars, fineVars >>

\* -------------------------------------------- stop_log_tail / stop_session
\* self.sessions.lock().remove(id): the guard of the if-let scrutinee lives to
\* the end of the if-let; None gives false, which stop_log_tail turns into Err.
LogStopRemove(t, id) ==
    /\ lth[t].pc = "idle"
    /\ logCalls > 0
    /\ logCalls' = logCalls - 1
    /\ logMapLock = "free"
    /\ logSessions' = RegistryRemove(logSessions, id)
    /\ IF RegistryGet(logSessions, id)
       THEN /\ logMapLock' = t
            /\ lth' = [lth EXCEPT ![t] = LogBegin("stop", "ls_stop", id)]
       ELSE /\ logMapLock' = "free"
            /\ lth' = [lth EXCEPT ![t] =
                         [LogBegin("stop", "idle", id) EXCEPT !.res = Err("NotFound")]]
    /\ UNCHANGED << lts, chan, pl, sink, logGroup, nextLogId, hist, polls, termVars, fineVars >>

\* session.lock().stop(); true; the map guard is dropped; Ok(()).
LogStopSignal(t) ==
    LET id == lth[t].id IN
    /\ lth[t].pc = "ls_stop"
    /\ lts' = [lts EXCEPT ![id] = SessionStop(lts[id])]
    /\ chan' = [chan EXCEPT ![id] = StopSend(lts[id], chan[id])]
    /\ logMapLock' = "free"
    /\ hist' = [hist EXCEPT ![id].stopped = TRUE,
                             ![id].first = IF @ = "none" THEN "stop" ELSE @]
    /\ lth' = LogReturn(t, Ok)
    /\ UNCHANGED << logSessions, pl, sink, logGroup, nextLogId,
                    logCalls, polls, termVars, fineVars >>

\* ------------------------------------- list_log_tail_sessions / list_sessions
LogListBegin(t) ==
    /\ lth[t].pc = "idle"
    /\ logCalls > 0
    /\ logCalls' = logCalls - 1
    /\ logMapLock = "free"
    /\ logMapLock' = t
    /\ lth' = [lth EXCEPT ![t] =
                 [LogBegin("list", "ll_visit", NoId) EXCEPT !.todo = logSessions]]
    /\ UNCHANGED << logSessions, lts, chan, pl, sink, logGroup,
                    nextLogId, hist, polls, termVars, fineVars >>

LogListVisit(t, id) ==
    /\ lth[t].pc = "ll_visit"
    /\ id \in lth[t].todo
    /\ lth' = [lth EXCEPT ![t].todo = @ \ {id},
                          ![t].snap = @ \cup { LogInfo(lts[id], id) }]
    /\ UNCHANGED << logSessions, logMapLock, lts, chan, pl, sink, logGroup,
                    nextLogId, logCalls, hist, polls, termVars, fineVars >>

LogListEnd(t) ==
    /\ lth[t].pc = "ll_visit"
    /\ lth[t].todo = {}
    /\ logMapLock' = "free"
    /\ lth' = LogReturn(t, [tag |-> "ok", val |-> lth[t].snap])
    /\ UNCHANGED << logSessions, lts, chan, pl, sink, logGroup,
                    nextLogId, logCalls, hist, polls, termVars, fineVars >>

\* ------------------------------------------------------------ the log group
\* One more event is ingested, with any timestamp.
Ingest(ts) ==
    /\ Cardinality(logGroup) < MaxIngest
    /\ logGroup' = logGroup \cup { [ts |-> ts, n |-> Cardinality(logGroup) + 1] }
    /\ UNCHANGED << logSessions, logMapLock, lts, chan, pl, sink,
                    lth, nextLogId, logCalls, hist, polls, termVars, fineVars >>

\* ------------------------------------------------------------- run_log_tail
\* app.emit("logs:<kind>:<id>", payload): the payload is a batch of events
\* ("output"), a description ("error") or nothing ("stopped").
LogEmit(evs, kind, batch, text) ==
    Append(evs, [kind |-> kind, data |-> batch, text |-> text])

\* Counts in hist what the poller does once stop_session has returned.
After(h, what) ==
    IF ~h.stopped THEN h
    ELSE IF what = "issue" THEN [h EXCEPT !.issued = @ + 1]
    ELSE [h EXCEPT !.outs = @ + 1]

\* Mutant: the task ends without its "stopped" event.
LeaveSilently(id) ==
    /\ sink' = sink
    /\ pl' = [pl EXCEPT ![id].pc = "done"]

\* Leaving the loop: the "stopped" event, and the task ends.
Leave(id) ==
    /\ sink' = [sink EXCEPT ![id] = LogEmit(@, "stopped", {}, <<>>)]
    /\ pl' = [pl EXCEPT ![id].pc = "done"]

\* Mutant: the loop top that looks at neither signal.
LoopTopBlind(flag, c) == "call"

\* Mutant: the loop top that always breaks.
LoopTopBreaks(flag, c) == "break"

\* The loop top: if stop_signal.load(SeqCst) { break }, then
\* if shutdown_rx.try_recv().is_ok() { break }; otherwise tail_log_events is
\* entered (the client is built, the request is not sent yet).
LoopTop(flag, c) == IF flag \/ c = "sent" THEN "break" ELSE "call"

PollTop(id) ==
    /\ pl[id].pc = "top"
    /\ IF LoopTop(lts[id].stop_signal, chan[id]) = "break"
       THEN /\ Leave(id)
            /\ chan' = IF ~lts[id].stop_signal /\ chan[id] = "sent"
                       THEN [chan EXCEPT ![id] = "taken"] ELSE chan
       ELSE /\ pl' = [pl EXCEPT ![id].pc = "call"]
            /\ UNCHANGED << sink, chan >>
    /\ hist' = [hist EXCEPT ![id].first = IF @ = "none" THEN "check" ELSE @]
    /\ UNCHANGED << logSessions, logMapLock, lts, logGroup, lth,
                    nextLogId, logCalls, polls, termVars, fineVars >>

\* request.send(): the query for start_time = last_timestamp is in flight.
PollIssue(id) ==
    /\ pl[id].pc = "call"
    /\ polls > 0
    /\ polls' = polls - 1
    /\ pl' = [pl EXCEPT ![id].pc = "inflight", ![id].since = pl[id].last]
    /\ hist' = [hist EXCEPT ![id] = After(@, "issue")]
    /\ UNCHANGED << logSessions, logMapLock, lts, chan, sink, logGroup,
                    lth, nextLogId, logCalls, termVars, fineVars >>

\* Mutant: the watermark stays where it is.
AdvanceNever(last, batch, new_timestamp) == last

\* The watermark after Ok((events, new_timestamp)).
Advance(last, batch, new_timestamp) ==
    IF batch # {} THEN new_timestamp ELSE last

\* Ok((events, new_timestamp)): a nonempty batch is emitted and the watermark
\* moves; then the task goes to its wait.
QueryOk(id, batch) ==
    /\ pl[id].pc = "inflight"
    /\ batch \in Answers(pl[id].since)
    /\ sink' = IF batch # {} THEN [sink EXCEPT ![id] = LogEmit(@, "output", batch, <<>>)]
               ELSE sink
    /\ hist' = [hist EXCEPT ![id] =
                  [(IF batch # {} THEN After(@, "out") ELSE @)
                     EXCEPT !.exact = @ /\ batch = ExactAnswer(pl[id].since)]]
    /\ pl' = [pl EXCEPT ![id].pc = "wait", ![id].since = 0,
                        ![id].last = Advance(@, batch, NewTimestamp(batch, pl[id].since))]
    /\ UNCHANGED << logSessions, logMapLock, lts, chan, logGroup,
                    lth, nextLogId, logCalls, polls, termVars, fineVars >>

\* Mutant: a failed query ends the task.
AfterErrorEnds == "done"

\* Where the loop goes after a failed query.
AfterError == "wait"

\* What a failed request can report.
Failures == { "throttled", "expired token" }

\* map_err of tail_log_events: the description the Err carries.
TailError(e) == << "Failed to tail log events: ", e >>

\* Err(e): the "error" event with e; the loop goes on.
QueryErr(id, e) ==
    /\ pl[id].pc = "inflight"
    /\ sink' = [sink EXCEPT ![id] = LogEmit(@, "error", {}, TailError(e))]
    /\ pl' = [pl EXCEPT ![id].pc = AfterError, ![id].since = 0]
    /\ UNCHANGED << logSessions, logMapLock, lts, chan, logGroup,
                    lth, nextLogId, logCalls, hist, polls, termVars, fineVars >>

\* select!: the sleep of poll_interval elapsed.
WaitTimer(id) ==
    /\ pl[id].pc = "wait"
    /\ pl' = [pl EXCEPT ![id].pc = "top"]
    /\ UNCHANGED << logSessions, logMapLock, lts, chan, sink, logGroup,
                    lth, nextLogId, logCalls, hist, polls, termVars, fineVars >>

\* select!: shutdown_rx completed; break.
WaitShutdown(id) ==
    /\ pl[id].pc = "wait"
    /\ chan[id] = "sent"
    /\ chan' = [chan EXCEPT ![id] = "taken"]
    /\ Leave(id)
    /\ UNCHANGED << logSessions, logMapLock, lts, logGroup, lth,
                    nextLogId, logCalls, hist, polls, termVars, fineVars >>

\* The commands of the caller threads T.
LogCommands(T) ==
    \/ \E t \in T : LogCreateInsert(t)
    \/ \E t \in T, k \in StartOffsets : LogCreateSpawn(t, LOOKBACK_MS + k)
    \/ \E t \in T, id \in LogIds : LogStopRemove(t, id)
    \/ \E t \in T : LogStopSignal(t)
    \/ \E t \in T : LogListBegin(t)
    \/ \E t \in T, id \in LogIds : LogListVisit(t, id)
    \/ \E t \in T : LogListEnd(t)

\* The log group and the poller tasks.
Polling ==
    \/ \E ts \in Stamps : Ingest(ts)
    \/ \E id \in LogIds : PollTop(id)
    \/ \E id \in LogIds : PollIssue(id)
    \/ \E id \in LogIds : \E batch \in SUBSET logGroup : QueryOk(id, batch)
    \/ \E id \in LogIds, e \in Failures : QueryErr(id, e)
    \/ \E id \in LogIds : WaitTimer(id)
    \/ \E id \in LogIds : WaitShutdown(id)

LogNext == LogCommands(PollThreads) \/ Polling

\* create and close only, for what a close leads to in the streamer.
CloseNext ==
    \/ \E t \in StreamThreads, o \in CreateOutcomes : CreatePty(t, o)
    \/ \E t \in StreamThreads : CreateStart(t)
    \/ \E t \in StreamThreads : CreateRegister(t)
    \/ \E t \in StreamThreads, id \in TermIds : CloseRemove(t, id)
    \/ \E t \in StreamThreads : CloseKill(t)
    \/ Streaming

\* A read of the streamer of session id that is bound to return: bytes are
\* there, or the child is gone (end of stream, or the hangup error).
StreamStep(id) ==
    \/ \E n \in 1..MaxOut : StreamRead(id, n)
    \/ StreamEof(id)
    \/ child[id] = "dead" /\ \E e \in ReadErrors : StreamErr(id, e)

\* The exit of a child whose kill was requested.
KilledExit(id) == pty[id].kills > 0 /\ ChildExit(id)

\* ------------------------------------------- the registry's map, by object
\* What the map holds for a key that has no entry.
NoObj == 0
RegKeys == TermIds
NoCall == [op |-> "none", id |-> NoId, had |-> NoObj, res |-> NoRes]

FineInit ==
    /\ regMap = [k \in RegKeys |-> NoObj]
    /\ regObjs = <<>>
    /\ regCall = NoCall
    /\ wr = [t \in Threads |-> 0]
    /\ cmd = [input |-> {}, built |-> {}]

\* HashMap::insert(k, v): the value of k is v, whatever it was.
MapInsert(m, k, v) == [m EXCEPT ![k] = v]
\* HashMap::remove(k)
MapRemove(m, k) == [m EXCEPT ![k] = NoObj]

\* create_session(session) with session.info.id = id: the object is wrapped
\* and inserted under its id, and the id is returned (a String: the call has
\* no way to report a failure).
RegCreate(id) ==
    LET obj == Len(regObjs) + 1 IN
    /\ Len(regObjs) < MaxObjs
    /\ regObjs' = Append(regObjs, id)
    /\ regMap' = MapInsert(regMap, id, obj)
    /\ regCall' = [op |-> "create", id |-> id, had |-> regMap[id],
                   res |-> [tag |-> "ok", val |-> { id }]]
    /\ UNCHANGED << wr, cmd, termVars, logVars >>

\* get_session(id): the object of the entry, or None.
RegGet(id) ==
    /\ regCall' = [op |-> "get", id |-> id, had |-> regMap[id],
                   res |-> IF regMap[id] = NoObj THEN Err("NotFound")
                           ELSE [tag |-> "ok", val |-> { regMap[id] }]]
    /\ UNCHANGED << regMap, regObjs, wr, cmd, termVars, logVars >>

\* remove_session(id): the entry is popped.
RegRemove(id) ==
    /\ regMap' = MapRemove(regMap, id)
    /\ regCall' = [op |-> "remove", id |-> id, had |-> regMap[id],
                   res |-> IF regMap[id] = NoObj THEN Err("NotFound")
                           ELSE [tag |-> "ok", val |-> { regMap[id] }]]
    /\ UNCHANGED << regObjs, wr, cmd, termVars, logVars >>

RegNext ==
    \/ \E id \in RegKeys : RegCreate(id)
    \/ \E id \in RegKeys : RegGet(id)
    \/ \E id \in RegKeys : RegRemove(id)

\* ---------------------------------------------------------- specifications
\* The terminal commands with all their inputs; no child produces output and
\* no streamer reads (the commands read and write none of child, out, rd,
\* stPc, events once the session is created).
TermInit == TermBase /\ calls = MaxCalls /\ LogInit /\ FineInit
SpecTerm == TermInit /\ [][TermNext]_vars

\* The streamers and the children, interleaved with the commands.
StreamInit == TermBase /\ calls = MaxStreamCalls /\ LogInit /\ FineInit
SpecStream == StreamInit /\ [][StreamNext]_vars

\* create and close with the streamers, scheduled fairly: a streamer thread
\* that can take a step eventually does, and a killed child eventually exits.
FairClose ==
    /\ StreamInit
    /\ [][CloseNext]_vars
    /\ \A id \in TermIds : WF_vars(StreamStep(id))
    /\ \A id \in TermIds : WF_vars(KilledExit(id))

\* The log-tail half runs; the terminal half stands still.
LogOnlyInit == TermBase /\ calls = 0 /\ LogInit /\ FineInit
SpecLog == LogOnlyInit /\ [][LogNext]_vars

\* create and write, with write_all seen byte by byte.
WriteNext ==
    \/ \E t \in Threads, o \in CreateOutcomes : CreatePty(t, o)
    \/ \E t \in Threads : CreateStart(t)
    \/ \E t \in Threads : CreateRegister(t)
    \/ \E t \in Threads, id \in TermIds, d \in Payloads : WriteLookup(t, id, d)
    \/ \E t \in Threads : WriteLock(t)
    \/ \E t \in Threads : WriteByte(t)
    \/ \E t \in Threads, o \in WriteOutcomes : WriteEnd(t, o)

SpecWrite == TermInit /\ [][WriteNext]_vars

\* list of either registry against the commands that change that registry:
\* create and close, start and stop, each called from two threads.
ListNext ==
    \/ \E t \in Threads, o \in CreateOutcomes : CreatePty(t, o)
    \/ \E t \in Threads : CreateStart(t)
    \/ \E t \in Threads : CreateRegister(t)
    \/ \E t \in Threads, id \in TermIds : CloseRemove(t, id)
    \/ \E t \in Threads : CloseKill(t)
    \/ \E t \in Threads : ListBegin(t)
    \/ \E t \in Threads, id \in TermIds : ListVisit(t, id)
    \/ \E t \in Threads : ListEnd(t)
    \/ LogCommands(Threads)

\* The close and list calls of a run go to one registry, the stop and list
\* calls to the other, or the other way round; sessions are created in both.
ListInit ==
    /\ TermBase /\ LogBase /\ FineInit
    /\ \/ calls = MaxCalls /\ logCalls = 0
       \/ calls = 0 /\ logCalls = MaxLogCalls
SpecList == ListInit /\ [][ListNext]_vars

\* A registry on its own: its calls with any session object and any id.
RegistryInit == TermBase /\ calls = 0 /\ LogInit /\ FineInit
SpecRegistry == RegistryInit /\ [][RegNext]_vars

\* The log-tail commands called from two threads at once (the pollers are
\* spawned but not run: no command reads what a poller writes).
LogCmdNext == LogCommands(Threads)
SpecLogCmd == LogOnlyInit /\ [][LogCmdNext]_vars


\* =================================================================== claims
Last(q) == q[Len(q)]

\* A lookup command of thread t has just found no entry for its id.
RefusedLookup(t) ==
    /\ th[t].pc = "idle"
    /\ th'[t] # th[t]
    /\ th'[t].op \in { "get", "write", "resize" }
    /\ th'[t].id \notin sessions

\* A session whose close has popped it (the kill done or still to do).
Popped(id) ==
    \/ pty[id].status = "Closed"
    \/ \E t \in Threads : th[t].pc = "cl_kill" /\ th[t].id = id

\* C1: get, write and resize on an id that has no entry in the registry return
\* "Session not found" in that one step and change neither the registry nor
\* any session; a session that a close has popped has no entry any more, so
\* every later get and write on its id is such a call.
C1_NotFoundWithoutEntry ==
    [][ /\ \A t \in Threads :
              RefusedLookup(t) =>
                  /\ th'[t].pc = "idle"
                  /\ th'[t].res = Err("NotFound")
                  /\ UNCHANGED << sessions, mapLock, sessLock, pty >>
        /\ \A id \in TermIds : Popped(id)' => id \notin sessions' ]_vars

C1_Witness ==
    \E t \in Threads :
        /\ th[t].pc = "idle" /\ th[t].op = "write"
        /\ th[t].res = Err("NotFound")
        /\ pty[th[t].id].status = "Closed"
        /\ \E i \in sessions : i # th[t].id

\* C2: once the status of a session is Closed or Error, no write reaches its
\* writer and its stored geometry does not change.
C2_NoWriteOrResizeAfterClosed ==
    [][ \A id \in TermIds :
            pty[id].status \in { "Closed", "Error" } =>
                /\ pty'[id].input = pty[id].input
                /\ pty'[id].cols = pty[id].cols
                /\ pty'[id].rows = pty[id].rows ]_vars

\* The bytes the "output" events of one session carry, decoded, in order.
RECURSIVE Published(_)
Published(evs) ==
    IF evs = <<>> THEN <<>>
    ELSE (IF Head(evs).kind = "output"
          THEN B64Decode(Head(evs).data).bytes ELSE <<>>)
         \o Published(Tail(evs))

Outputs(evs) == { i \in 1..Len(evs) : evs[i].kind = "output" }

\* C7: the payloads of a session's "output" events all decode, to chunks that
\* are not empty, and their concatenation is the stream up to where the
\* reader stands: nothing dropped, repeated or out of place.
C7_OutputInStreamOrder ==
    \A id \in TermIds :
        /\ \A i \in Outputs(events[id]) :
               /\ B64Decode(events[id][i].data).ok
               /\ B64Decode(events[id][i].data).bytes # <<>>
        /\ Published(events[id]) = SubSeq(out[id], 1, rd[id])

C7_Witness ==
    \E id \in TermIds :
        /\ Cardinality(Outputs(events[id])) = 2
        /\ pty[id].input # <<>>
        /\ pty[id].status = "Closed"

Terminal(e) == e.kind \in { "closed", "error" }

\* C8: a streamer that has stopped has published exactly one terminal event,
\* the last of its events, and one that runs has published none; the event is
\* "closed" on a zero-length read and "error", with the description of the
\* error, on a failed read; each read of
\* n > 0 bytes appends exactly one "output" event; a stopped streamer
\* publishes nothing.
C8_OneTerminalEvent ==
    [][ \A id \in TermIds :
            /\ \A i \in 1..Len(events'[id]) :
                   Terminal(events'[id][i]) <=>
                       (i = Len(events'[id]) /\ stPc'[id] = "done")
            /\ stPc'[id] = "done" => events'[id] # <<>>
            /\ StreamEof(id) =>
                   events'[id] = Append(events[id],
                       [kind |-> "closed", data |-> <<>>, text |-> ""])
            /\ \A e \in ReadErrors : StreamErr(id, e) =>
                   events'[id] = Append(events[id],
                       [kind |-> "error", data |-> <<>>, text |-> e])
            /\ rd'[id] # rd[id] =>
                   /\ Len(events'[id]) = Len(events[id]) + 1
                   /\ SubSeq(events'[id], 1, Len(events[id])) = events[id]
                   /\ Last(events'[id]).kind = "output"
            /\ stPc[id] = "done" => events'[id] = events[id] /\ stPc'[id] = "done" ]_vars

C8_Witness ==
    \E id \in TermIds :
        /\ stPc[id] = "done"
        /\ Len(events[id]) = 3
        /\ events[id][1].kind = "output" /\ events[id][2].kind = "output"
        /\ events[id][3].kind = "closed"

\* The streamer of id has published its terminal event.
Ended(id) ==
    /\ stPc[id] = "done"
    /\ events[id] # <<>>
    /\ Terminal(Last(events[id]))

\* C9: after terminal_close has set a session Closed and asked for the kill,
\* its streamer eventually publishes "closed" or "error" (a killed child exits,
\* the streamer is scheduled).
C9_CloseLeadsToTerminalEvent ==
    \A id \in TermIds : (pty[id].status = "Closed") ~> Ended(id)

\* The close has returned while the child lives and the streamer still reads.
C9_Witness ==
    \E t \in Threads :
        /\ th[t].pc = "idle" /\ th[t].op = "close" /\ th[t].res = Ok
        /\ pty[th[t].id].status = "Closed"
        /\ child[th[t].id] = "alive"
        /\ stPc[th[t].id] = "reading"


\* C3 as stated: once stop_session has returned, no query is issued any more
\* and at most one "output" event is published.
C3_NoQueryAfterStop ==
    \A id \in LogIds :
        hist[id].stopped => hist[id].issued = 0 /\ hist[id].outs <= 1

\* C3, amended: once stop_session(id) has returned, the poller passes no
\* loop-top check any more; at most one query is issued after that (by the
\* iteration that had passed the loop top before), and at most one "output"
\* event is published after that.
C3_AtMostOneQueryAfterStop ==
    [][ \A id \in LogIds :
            /\ hist'[id].stopped => hist'[id].issued <= 1 /\ hist'[id].outs <= 1
            /\ hist[id].stopped /\ pl[id].pc = "top" /\ pl'[id] # pl[id]
                   => pl'[id].pc = "done" ]_vars

C3_Witness ==
    \E id \in LogIds :
        hist[id].stopped /\ hist[id].issued = 1 /\ hist[id].outs = 1

\* C4: the watermark of a running poller never decreases, whatever the log
\* source answers.
C4_WatermarkMonotone ==
    [][ \A id \in LogIds :
            pl[id].pc # "none" => pl'[id].last >= pl[id].last ]_vars

\* The batches of the "output" events of one session, in order.
Batches(evs) == SelectSeq(evs, LAMBDA e : e.kind = "output")

\* C5: with a log source that answers with exactly the events at or after the
\* queried watermark, every event of a published batch is newer than every
\* event of every batch published before it (so no event is published
\* twice), and the watermark is beyond everything that was published.
C5_NoRepublication ==
    \A id \in LogIds :
        hist[id].exact =>
            LET bs == Batches(sink[id]) IN
            /\ \A i, j \in 1..Len(bs) :
                   i < j => /\ bs[i].data \cap bs[j].data = {}
                            /\ \A e \in bs[j].data : e.ts >= MaxStamp(bs[i].data) + 1
            /\ \A i \in 1..Len(bs) : pl[id].last >= MaxStamp(bs[i].data) + 1

C5_Witness ==
    \E id \in LogIds :
        /\ hist[id].exact
        /\ Len(Batches(sink[id])) = 2
        /\ Cardinality(logGroup) = 2

\* C6: a failed poll appends exactly one "error" event, with the description
\* of the failure, to the session's events and nothing else, leaves the watermark and the registry as they
\* were and takes the poller to its wait; from the wait, if no shutdown was
\* sent, the poller goes to the loop top, and from the loop top, if no stop
\* was signalled, to the next query.
C6_FailedPollGoesOn ==
    [][ \A id \in LogIds :
            /\ \A e \in Failures : QueryErr(id, e) =>
                   /\ sink'[id] = Append(sink[id],
                          [kind |-> "error", data |-> {}, text |-> TailError(e)])
                   /\ pl'[id].last = pl[id].last
                   /\ pl'[id].pc = "wait"
                   /\ logSessions' = logSessions
                   /\ lts' = lts
            /\ pl[id].pc = "wait" /\ pl'[id] # pl[id] /\ chan[id] # "sent"
                   => pl'[id].pc = "top"
            /\ pl[id].pc = "top" /\ pl'[id] # pl[id]
                 /\ ~lts[id].stop_signal /\ chan[id] # "sent"
                   => pl'[id].pc = "call"
            /\ pl[id].pc = "call" /\ pl'[id] # pl[id]
                   => pl'[id].pc = "inflight" /\ pl'[id].since = pl[id].last ]_vars

\* An "error" event followed by the "output" of the next poll.
C6_Witness ==
    \E id \in LogIds : \E i \in 1..Len(sink[id]) :
        /\ i < Len(sink[id])
        /\ sink[id][i].kind = "error"
        /\ sink[id][i + 1].kind = "output"
        /\ id \in logSessions

\* Thread t takes a step of stop_session(a).
StopStep(t, a) ==
    /\ lth'[t] # lth[t]
    /\ lth'[t].op = "stop"
    /\ lth'[t].id = a

\* C10: a step of stop_session(a) changes nothing of any other session b: its
\* registry entry, its flag and sender, its one-shot, its poller (watermark
\* included) and its events; and a registered session has its flag unset and
\* its one-shot unfired.
C10_StopLeavesOthersAlone ==
    [][ /\ \A t \in Threads, a \in LogIds :
              StopStep(t, a) =>
                  \A b \in LogIds \ {a} :
                      /\ (b \in logSessions') <=> (b \in logSessions)
                      /\ lts'[b] = lts[b]
                      /\ chan'[b] = chan[b]
                      /\ pl'[b] = pl[b]
                      /\ sink'[b] = sink[b]
        /\ \A b \in logSessions' :
              ~lts'[b].stop_signal /\ lts'[b].shutdown_tx /\ chan'[b] = "empty" ]_vars

\* a is stopped and its poller gone; b is registered and its poller, past
\* its loop top, is about to send a query.
C10_Witness ==
    \E a, b \in LogIds :
        /\ a # b
        /\ hist[a].stopped /\ pl[a].pc = "done"
        /\ b \in logSessions
        /\ pl[b].pc = "call" /\ polls > 0
        /\ \E i \in 1..Len(sink[b]) : sink[b][i].kind = "output"

\* Thread t enters stop_log_tail(id).
StopCall(t, id) ==
    /\ lth[t].pc = "idle"
    /\ lth'[t] # lth[t]
    /\ lth'[t].op = "stop"
    /\ lth'[t].id = id

\* The threads whose stop_log_tail(id) found the entry.
StopWinners(id) ==
    { t \in Threads : /\ lth[t].op = "stop" /\ lth[t].id = id
                      /\ (lth[t].pc = "ls_stop" \/ lth[t].res = Ok) }

\* C11: stop_log_tail(id) pops the entry in one step; it goes on to return ok
\* exactly when the entry was there, and returns not-found at once, changing
\* nothing, when it was not; an id whose stop found the entry is in the
\* registry no more and is handed to no list; at most one of the threads that
\* stop the same id finds the entry.
C11_StopOkIffRegistered ==
    [][ /\ \A t \in Threads, id \in LogIds :
              StopCall(t, id) =>
                  /\ id \notin logSessions'
                  /\ IF id \in logSessions
                     THEN lth'[t].pc = "ls_stop"
                     ELSE /\ lth'[t].pc = "idle"
                          /\ lth'[t].res = Err("NotFound")
                          /\ UNCHANGED << logSessions, lts, chan >>
        /\ \A t \in Threads :
              lth[t].pc = "ls_stop" /\ lth'[t] # lth[t] =>
                  lth'[t].pc = "idle" /\ lth'[t].res = Ok
        /\ \A id \in LogIds :
              StopWinners(id)' # {} =>
                  /\ Cardinality(StopWinners(id)') = 1
                  /\ id \notin logSessions'
                  /\ \A t \in Threads :
                         lth'[t].op = "list" /\ lth'[t] # lth[t] =>
                             /\ id \notin lth'[t].todo
                             /\ \A r \in lth'[t].snap : r.id # id ]_vars

\* Two threads stopped the same id: one got ok, the other not-found.
C11_Witness ==
    \E t, u \in Threads, id \in LogIds :
        /\ t # u
        /\ lth[t].op = "stop" /\ lth[t].id = id /\ lth[t].pc = "idle"
        /\ lth[u].op = "stop" /\ lth[u].id = id /\ lth[u].pc = "idle"
        /\ lth[t].res = Ok
        /\ lth[u].res = Err("NotFound")

\* C12: create_session with a session whose id already has an entry reports
\* an error and leaves the entry holding the object it held.
C12_DuplicateIdRefused ==
    [][ \A id \in RegKeys :
            RegCreate(id) /\ regMap[id] # NoObj =>
                /\ regMap'[id] = regMap[id]
                /\ regCall'.res = Err("SessionAlreadyExists") ]_vars

\* The status changes of one step, as pairs << from, to >>.
StatusMoves ==
    { << pty[id].status, pty'[id].status >> :
          id \in { i \in TermIds : pty'[i].status # pty[i].status } }

\* C13 as stated: the status moves one step at a time along
\* Starting -> Running -> Closing -> Closed, or to Error from Starting or
\* Running, and never leaves Closed or Error.
C13_StatusChain ==
    [][ StatusMoves \subseteq
            { << "None", "Starting" >>, << "Starting", "Running" >>,
              << "Running", "Closing" >>, << "Closing", "Closed" >>,
              << "Starting", "Error" >>, << "Running", "Error" >> } ]_vars

\* C13, amended: the status moves Starting -> Running -> Closed and in no
\* other way (Closing is skipped, Error is never assigned): it never goes
\* backwards and never leaves Closed.
C13_StatusForward ==
    [][ StatusMoves \subseteq
            { << "None", "Starting" >>, << "Starting", "Running" >>,
              << "Running", "Closed" >> } ]_vars

\* A session was written to, resized and then closed.
C13_Witness ==
    \E id \in TermIds :
        /\ pty[id].status = "Closed"
        /\ pty[id].input # <<>>
        /\ pty[id].cols # DEFAULT_COLS

\* The ids whose create_pty_session failed.
FailedCreates == { id \in TermIds : id < nextId /\ pty[id].status = "None" }

\* C14: a create whose create_pty_session fails returns that error in the
\* same step and changes neither the registry nor any session, child or
\* streamer; the id it had drawn never gets an entry, a child, a streamer or
\* an event.
C14_FailedCreateLeavesNothing ==
    [][ /\ \A t \in Threads, o \in CreateOutcomes \ { "ok" } :
              CreatePty(t, o) =>
                  /\ th'[t].pc = "idle"
                  /\ th'[t].res = Err(o)
                  /\ UNCHANGED << sessions, mapLock, pty, child, stPc, events >>
        /\ \A id \in FailedCreates' :
              /\ id \notin sessions'
              /\ child'[id] = "none"
              /\ stPc'[id] = "none"
              /\ events'[id] = <<>> ]_vars

\* One create failed at the spawn; the next one succeeded, and its session is
\* registered and streams.
C14_Witness ==
    \E id \in TermIds :
        /\ id \in FailedCreates
        /\ id + 1 \in sessions
        /\ events[id + 1] # <<>>
        /\ \E t \in Threads : th[t].op = "get" /\ th[t].id = id
                                /\ th[t].res = Err("NotFound")

\* Thread t returns from a write or a resize with an operational error.
OperationalFailure(t) ==
    /\ th'[t] # th[t]
    /\ th'[t].pc = "idle"
    /\ th'[t].op \in { "write", "resize" }
    /\ th'[t].res.tag \in { "DecodeError", "WriteFailed", "ResizeFailed" }

\* C15: a payload that does not decode returns DecodeError and a failing
\* write_all or flush returns WriteFailed, to that caller; the step that
\* returns an operational error leaves the registry, every status and every
\* other thread as they were and holds no lock afterwards (so that the next
\* call on the id is served); a decode error leaves every session untouched.
C15_OperationalFailureIsLocal ==
    [][ /\ \A t \in Threads, id \in TermIds, d \in Payloads :
              WriteLookup(t, id, d) /\ id \in sessions /\ ~B64Decode(d).ok =>
                  th'[t].res = Err("DecodeError")
        /\ \A t \in Threads, o \in WriteOutcomes \ { "ok" } :
              \A w \in 0..Len(B64Decode(th[t].data).bytes) :
                  WriteIo(t, o, w) => th'[t].res = Err("WriteFailed")
        /\ \A t \in Threads :
              OperationalFailure(t) =>
                  LET id == th'[t].id IN
                  /\ sessions' = sessions
                  /\ \A i \in TermIds : pty'[i].status = pty[i].status
                  /\ \A u \in Threads \ {t} : th'[u] = th[u]
                  /\ sessLock'[id] # t /\ mapLock' # t
                  /\ th'[t].res.tag = "DecodeError" => pty' = pty ]_vars

\* A write on a session failed, and a later write on it went through.
C15_Witness ==
    \E t, u \in Threads :
        /\ t # u
        /\ th[t].op = "write" /\ th[t].res = Err("WriteFailed")
        /\ th[u].op = "write" /\ th[u].id = th[t].id
        /\ th[u].pc = "w_io" /\ th[t].pc = "idle"
        /\ th[t].id \in sessions
        /\ pty[th[t].id].status = "Running"

\* The threads that are inside write_to_pty on session id.
Writers(id) == { t \in Threads : th[t].pc = "w_io" /\ th[t].id = id }

\* The last k elements of q.
LastBytes(q, k) == SubSeq(q, Len(q) - k + 1, Len(q))

\* C16: at most one thread is inside write_to_pty on a session, it is the
\* holder of the session's lock, and the bytes its write_all has passed on so
\* far are the end of the child's input: no byte of another call lies between
\* the bytes of one call.
C16_WritesSerialized ==
    \A id \in TermIds :
        /\ Cardinality(Writers(id)) <= 1
        /\ \A t \in Writers(id) :
               /\ sessLock[id] = t
               /\ wr[t] <= Len(pty[id].input)
               /\ LastBytes(pty[id].input, wr[t])
                      = SubSeq(B64Decode(th[t].data).bytes, 1, wr[t])

\* One thread is in the middle of its write_all while the other, which
\* writes to the same session, waits for the lock.
C16_Witness ==
    \E t, u \in Threads :
        /\ th[t].pc = "w_io" /\ wr[t] = 1
        /\ Len(B64Decode(th[t].data).bytes) = 2
        /\ th[u].pc = "w_lock" /\ th[u].id = th[t].id
        /\ pty[th[t].id].input # << B64Decode(th[t].data).bytes[1] >>

\* The ids of a set of summaries.
IdsOf(infos) == { r.id : r \in infos }

\* C17: while a list call runs, the registry it lists does not change; what
\* it returns is one summary per id registered then, each the value the
\* session's info had when it was visited; and a returned list stays what it
\* was, whatever happens to the sessions afterwards. For both registries.
C17_ListIsSnapshot ==
    [][ /\ \A t \in Threads :
              /\ th[t].pc = "l_visit" \/ th'[t].pc = "l_visit"
                     => sessions' = sessions
              /\ th[t].pc = "l_visit" /\ th'[t].pc = "idle" =>
                     /\ th'[t].res.tag = "ok"
                     /\ IdsOf(th'[t].res.val) = sessions
                     /\ Cardinality(th'[t].res.val) = Cardinality(sessions)
                     /\ \A r \in th'[t].res.val : r = Info(pty[r.id], r.id)
              /\ th[t].pc = "idle" /\ th[t].op = "list"
                   /\ th'[t].pc = "idle" /\ th'[t].op = "list"
                     => th'[t].res = th[t].res
        /\ \A t \in Threads :
              /\ lth[t].pc = "ll_visit" \/ lth'[t].pc = "ll_visit"
                     => logSessions' = logSessions
              /\ lth[t].pc = "ll_visit" /\ lth'[t].pc = "idle" =>
                     /\ lth'[t].res.tag = "ok"
                     /\ IdsOf(lth'[t].res.val) = logSessions
                     /\ Cardinality(lth'[t].res.val) = Cardinality(logSessions)
                     /\ \A r \in lth'[t].res.val : r = LogInfo(lts[r.id], r.id)
              /\ lth[t].pc = "idle" /\ lth[t].op = "list"
                   /\ lth'[t].pc = "idle" /\ lth'[t].op = "list"
                     => lth'[t].res = lth[t].res ]_vars

\* A returned list holds the summary of a session, still Running in it, that
\* was closed since; the other thread is creating a session meanwhile.
C17_Witness ==
    \E t, u \in Threads :
        /\ th[t].op = "list" /\ th[t].pc = "idle"
        /\ \E r \in th[t].res.val :
               r.status = "Running" /\ pty[r.id].status = "Closed"
        /\ th[u].pc = "c_register"

\* Thread t returns from terminal_close.
CloseReturns(t) ==
    /\ th'[t] # th[t]
    /\ th'[t].op = "close"
    /\ th'[t].pc = "idle"

\* C18: every return of terminal_close is Ok: at once, and with nothing
\* changed, for an id that has no entry (never registered, or closed
\* before), and after the kill for a registered one, whether its child lives
\* or has exited; and a close that has popped its session and finds the
\* session's lock free can always take its last step.
C18_CloseNeverFails ==
    [][ \A t \in Threads :
            /\ CloseReturns(t) => th'[t].res = Ok
            /\ CloseReturns(t) /\ th[t].pc = "idle" =>
                   /\ th'[t].id \notin sessions
                   /\ UNCHANGED << sessions, pty, child, sessLock, mapLock >>
            /\ th[t].pc = "cl_kill" /\ sessLock[th[t].id] = "free"
                   => ENABLED CloseKill(t) ]_vars

\* A session was written to, its child has exited, and the close that popped
\* it is about to ask for the kill.
C18_Witness ==
    \E t \in Threads :
        /\ th[t].pc = "cl_kill"
        /\ child[th[t].id] = "dead"
        /\ pty[th[t].id].input # <<>>

\* The positions of the "stopped" events among the events of one session.
Stoppeds(evs) == { i \in 1..Len(evs) : evs[i].kind = "stopped" }

\* C19: a poller whose loop has exited has published "stopped" exactly once,
\* as the last of its events, and publishes nothing more; a poller whose loop
\* still runs has published none; each exit of the loop (at the loop top or
\* out of the wait) appends the "stopped" event in that step.
C19_StoppedOnceAndLast ==
    [][ \A id \in LogIds :
            /\ Stoppeds(sink'[id]) =
                   (IF pl'[id].pc = "done" THEN { Len(sink'[id]) } ELSE {})
            /\ pl'[id].pc = "done" => sink'[id] # <<>>
            /\ pl[id].pc # "done" /\ pl'[id].pc = "done" =>
                   /\ pl[id].pc \in { "top", "wait" }
                   /\ sink'[id] = Append(sink[id],
                          [kind |-> "stopped", data |-> {}, text |-> <<>>])
            /\ pl[id].pc = "done" => pl'[id] = pl[id] /\ sink'[id] = sink[id] ]_vars

\* Two pollers have ended, one out of its wait after a batch and the other
\* at the loop top after a failed query.
C19_Witness ==
    \E a, b \in LogIds :
        /\ a # b
        /\ pl[a].pc = "done" /\ pl[b].pc = "done"
        /\ chan[a] = "taken" /\ chan[b] = "sent"
        /\ Len(sink[a]) = 2 /\ sink[a][1].kind = "output"
        /\ Len(sink[b]) = 2 /\ sink[b][1].kind = "error"

\* C20: the status of a log-tail session is Running from its creation on and
\* nothing changes it; a query that ends (with events, with none, or with an
\* error) changes no session and no registry entry and takes the poller to
\* its wait; and a poller leaves its loop only after stop has been called on
\* its session, which is then in the registry no more.
C20_RunningUntilStopped ==
    [][ \A id \in LogIds :
            /\ lts'[id].status = (IF id < nextLogId' THEN "Running" ELSE "None")
            /\ pl[id].pc = "inflight" /\ pl'[id] # pl[id] =>
                   /\ lts' = lts
                   /\ logSessions' = logSessions
                   /\ pl'[id].pc = "wait"
            /\ pl'[id].pc = "done" =>
                   /\ lts'[id].stop_signal
                   /\ id \notin logSessions' ]_vars

\* A poller has had a failed query and then a batch, was stopped and has
\* ended; the status of its session is still Running.
C20_Witness ==
    \E id \in LogIds :
        /\ pl[id].pc = "done"
        /\ Len(sink[id]) = 3
        /\ sink[id][1].kind = "error" /\ sink[id][2].kind = "output"
        /\ lts[id].status = "Running"
        /\ lts[id].stop_signal

\* The session locks thread t is about to take, waits for or holds in the
\* terminal registry: the one of its call's session, or, in a list, those of
\* the sessions it has still to visit.
Wanted(t) ==
    IF th[t].pc \in { "w_lock", "w_io", "r_do", "cl_kill", "g_info" }
    THEN { th[t].id }
    ELSE IF th[t].pc = "l_visit" THEN th[t].todo
    ELSE {}

\* The same for the log-tail registry: stop_session and list_sessions.
LogWanted(t) ==
    IF lth[t].pc = "ls_stop" THEN { lth[t].id }
    ELSE IF lth[t].pc = "ll_visit" THEN lth[t].todo
    ELSE {}

\* C21: a thread that holds the map lock of a registry neither takes nor holds
\* a per-session lock of that registry (and so none takes the map lock while
\* it holds a session lock), in the terminal and in the log-tail registry.
C21_MapLockOnlyForMapAccess ==
    \A t \in Threads :
        /\ mapLock = t => Wanted(t) = {} /\ \A id \in TermIds : sessLock[id] # t
        /\ logMapLock = t => LogWanted(t) = {}

\* Three caller threads: one to hold a session's lock, one to list, one to
\* work on another session.
Workers == { "t1", "t2", "t3" }

ContendFields ==
    /\ sessions = {}
    /\ mapLock = "free"
    /\ sessLock = [i \in TermIds |-> "free"]
    /\ pty = [i \in TermIds |-> NoSession]
    /\ child = [i \in TermIds |-> "none"]
    /\ out = [i \in TermIds |-> <<>>]
    /\ rd = [i \in TermIds |-> 0]
    /\ stPc = [i \in TermIds |-> "none"]
    /\ events = [i \in TermIds |-> <<>>]
    /\ th = [t \in Workers |-> IdleTh]
    /\ nextId = 1
    /\ LogInit /\ FineInit

ContendInit == ContendFields /\ calls = MaxCalls

ContendNext == Commands(Workers, StreamPayloads, StreamGeoms)

\* The terminal commands called from three threads at once.
SpecContend == ContendInit /\ [][ContendNext]_vars

\* The sessions whose lock keeps thread t from its next step: the session of
\* its call when somebody else holds its lock, or, in a list, the sessions it
\* has still to visit when every one of them is locked.
StuckOn(t) ==
    IF th[t].pc \in { "w_lock", "r_do", "cl_kill", "g_info" }
    THEN { i \in { th[t].id } : ~CanLock(sessLock[i]) }
    ELSE IF th[t].pc = "l_visit" /\ \A i \in th[t].todo : ~CanLock(sessLock[i])
    THEN th[t].todo
    ELSE {}

\* The sessions whose lock thread t waits for, itself or through the holder
\* of the map lock when its next step is a map access (the first step of any
\* command, or the create_session of a create).
HeldUpBy(t) ==
    StuckOn(t) \cup
    (IF th[t].pc \in { "idle", "c_register" } /\ mapLock \in Workers \ {t}
     THEN StuckOn(mapLock) ELSE {})

\* C22: no get, write, resize, close or create waits for the lock of a session
\* other than its own: a create that is about to register waits for no session
\* lock at all, and neither does a thread that is about to call a command on
\* a registered session b whose lock nobody holds; a call that has found its
\* session b is held up by the lock of b at most.
C22_NoContentionAcrossSessions ==
    \A u \in Workers :
        /\ th[u].pc = "c_register" => HeldUpBy(u) = {}
        /\ th[u].pc = "idle" =>
               \A b \in sessions : CanLock(sessLock[b]) => HeldUpBy(u) \subseteq {b}
        /\ th[u].pc \in { "w_lock", "r_do", "cl_kill", "g_info" } =>
               HeldUpBy(u) \subseteq { th[u].id }

\* The step in which LogTailSession::stop is called on session id.
Stops(id) == ~lts[id].stop_signal /\ lts'[id].stop_signal

\* C23: the call of stop sets the flag and fires the one-shot in one step;
\* from then on a poller in its wait can leave on the one-shot at once (it
\* does not need the timer), a poller at the loop top leaves at its next
\* step, and a poller that was in its wait or at the loop top when stop was
\* called never reaches another query.
C23_BothSignalsCoverTheirCase ==
    [][ \A id \in LogIds :
            /\ Stops(id) =>
                   /\ chan[id] = "empty" /\ chan'[id] = "sent"
                   /\ lts[id].shutdown_tx /\ ~lts'[id].shutdown_tx
            /\ lts[id].stop_signal /\ pl[id].pc = "wait" =>
                   /\ chan[id] = "sent"
                   /\ ENABLED WaitShutdown(id)
                   /\ pl'[id].pc \in { "wait", "top", "done" }
                   /\ pl'[id].pc = "done" => chan'[id] = "taken"
            /\ lts[id].stop_signal /\ pl[id].pc = "top" =>
                   /\ pl'[id].pc \in { "top", "done" }
                   /\ pl'[id] # pl[id] => pl'[id].pc = "done"
            /\ Stops(id) /\ pl[id].pc \in { "wait", "top" } =>
                   hist'[id].issued = 0
            /\ hist[id].stopped /\ hist[id].issued = 0
                 /\ pl[id].pc \in { "wait", "top", "done" } =>
                   hist'[id].issued = 0 ]_vars

\* Two stopped pollers have ended without another query: one left its wait
\* on the one-shot, the other left at the loop top on the flag.
C23_Witness ==
    \E a, b \in LogIds :
        /\ lts[a].stop_signal /\ lts[b].stop_signal
        /\ pl[a].pc = "done" /\ chan[a] = "taken" /\ hist[a].issued = 0
        /\ pl[b].pc = "done" /\ chan[b] = "sent" /\ hist[b].issued = 0

\* request.send() where the bound on the queries is for the pollers that run
\* on: a poller whose session was stopped issues the query it had entered.
PollIssueAny(id) ==
    /\ pl[id].pc = "call"
    /\ polls > 0 \/ lts[id].stop_signal
    /\ polls' = IF polls > 0 THEN polls - 1 ELSE polls
    /\ pl' = [pl EXCEPT ![id].pc = "inflight", ![id].since = pl[id].last]
    /\ hist' = [hist EXCEPT ![id] = After(@, "issue")]
    /\ UNCHANGED << logSessions, logMapLock, lts, chan, sink, logGroup,
                    lth, nextLogId, logCalls, termVars, fineVars >>

\* One step of the task run_log_tail of session id; a query in flight
\* returns, with events or with an error.
PollerStep(id) ==
    \/ PollTop(id)
    \/ PollIssueAny(id)
    \/ \E batch \in SUBSET logGroup : QueryOk(id, batch)
    \/ \E e \in Failures : QueryErr(id, e)
    \/ WaitTimer(id)
    \/ WaitShutdown(id)

\* start and stop from one thread, the log group and the poller tasks.
FairLogNext ==
    \/ \E t \in PollThreads : LogCreateInsert(t)
    \/ \E t \in PollThreads : LogCreateSpawn(t, LOOKBACK_MS)
    \/ \E t \in PollThreads, id \in LogIds : LogStopRemove(t, id)
    \/ \E t \in PollThreads : LogStopSignal(t)
    \/ \E ts \in Stamps : Ingest(ts)
    \/ \E id \in LogIds : PollTop(id)
    \/ \E id \in LogIds : PollIssueAny(id)
    \/ \E id \in LogIds : \E batch \in SUBSET logGroup : QueryOk(id, batch)
    \/ \E id \in LogIds, e \in Failures : QueryErr(id, e)
    \/ \E id \in LogIds : WaitTimer(id)
    \/ \E id \in LogIds : WaitShutdown(id)

\* The poller tasks are scheduled fairly and their queries return.
FairLogInit ==
    /\ TermBase /\ calls = 0 /\ FineInit
    /\ LogFields /\ polls = MaxFairPolls /\ logCalls = MaxLogCalls

FairLog ==
    /\ FairLogInit
    /\ [][FairLogNext]_vars
    /\ \A id \in LogIds : WF_vars(PollerStep(id))

\* C24: once stop_session(id) has returned, the poller of id eventually
\* leaves its loop and publishes "stopped", its last event.
C24_StopLeadsToStopped ==
    \A id \in LogIds :
        hist[id].stopped ~>
            (pl[id].pc = "done" /\ sink[id] # <<>> /\ Last(sink[id]).kind = "stopped")

\* stop_session has returned while the query of the poller is in flight and
\* no further query is allowed to the pollers that run on.
C24_Witness ==
    \E id \in LogIds :
        /\ hist[id].stopped
        /\ pl[id].pc = "inflight"
        /\ hist[id].issued = 1
        /\ polls = 0

\* C25: a query that returns a nonempty batch publishes it as one "output"
\* event and sets the watermark to the largest timestamp of the batch plus one;
\* a query that returns no event, and a query that fails, leave the watermark
\* as it was and publish no "output" event; a query is issued with the
\* watermark of that moment; nothing else moves the watermark of a running
\* poller.
C25_WatermarkIsMaxPlusOne ==
    [][ \A id \in LogIds :
            /\ \A batch \in SUBSET logGroup :
                   QueryOk(id, batch) =>
                       IF batch # {}
                       THEN /\ pl'[id].last = MaxStamp(batch) + 1
                            /\ sink'[id] = Append(sink[id],
                                   [kind |-> "output", data |-> batch, text |-> <<>>])
                       ELSE /\ pl'[id].last = pl[id].last
                            /\ sink'[id] = sink[id]
            /\ \A e \in Failures :
                   QueryErr(id, e) =>
                       /\ pl'[id].last = pl[id].last
                       /\ Batches(sink'[id]) = Batches(sink[id])
            /\ PollIssue(id) => pl'[id].since = pl[id].last /\ pl'[id].last = pl[id].last
            /\ pl[id].pc # "none" /\ pl'[id].last # pl[id].last =>
                   /\ pl[id].pc = "inflight"
                   /\ Len(sink'[id]) = Len(sink[id]) + 1
                   /\ Last(sink'[id]).kind = "output" ]_vars

\* A poller has published a batch and has then had a failed query: its
\* watermark is where the batch has put it.
C25_Witness ==
    \E id \in logSessions :
        /\ pl[id].pc = "wait"
        /\ Len(sink[id]) = 2
        /\ sink[id][1].kind = "output" /\ sink[id][2].kind = "error"
        /\ Cardinality(sink[id][1].data) = 2
        /\ pl[id].last = MaxStamp(sink[id][1].data) + 1

\* Ok((events, new_timestamp)) where app.emit may fail: the error of emit is
\* logged (tracing::error!) and the watermark moves all the same.
QueryOkEmit(id, batch, emitted) ==
    /\ pl[id].pc = "inflight"
    /\ batch \in Answers(pl[id].since)
    /\ sink' = IF batch # {} /\ emitted
               THEN [sink EXCEPT ![id] = LogEmit(@, "output", batch, <<>>)]
               ELSE sink
    /\ hist' = [hist EXCEPT ![id] =
                  [(IF batch # {} /\ emitted THEN After(@, "out") ELSE @)
                     EXCEPT !.exact = @ /\ batch = ExactAnswer(pl[id].since)]]
    /\ pl' = [pl EXCEPT ![id].pc = "wait", ![id].since = 0,
                        ![id].last = Advance(@, batch, NewTimestamp(batch, pl[id].since))]
    /\ UNCHANGED << logSessions, logMapLock, lts, chan, logGroup,
                    lth, nextLogId, logCalls, polls, termVars, fineVars >>

\* start and stop from one thread, the log group, and the poller tasks with
\* an event sink that may refuse an event.
EmitNext ==
    \/ \E t \in PollThreads : LogCreateInsert(t)
    \/ \E t \in PollThreads, k \in StartOffsets : LogCreateSpawn(t, LOOKBACK_MS + k)
    \/ \E t \in PollThreads, id \in LogIds : LogStopRemove(t, id)
    \/ \E t \in PollThreads : LogStopSignal(t)
    \/ \E ts \in Stamps : Ingest(ts)
    \/ \E id \in LogIds : PollTop(id)
    \/ \E id \in LogIds : PollIssue(id)
    \/ \E id \in LogIds, emitted \in BOOLEAN :
          \E batch \in SUBSET logGroup : QueryOkEmit(id, batch, emitted)
    \/ \E id \in LogIds, e \in Failures : QueryErr(id, e)
    \/ \E id \in LogIds : WaitTimer(id)
    \/ \E id \in LogIds : WaitShutdown(id)

SpecEmit == FairLogInit /\ [][EmitNext]_vars

\* C26: whenever the watermark of a running poller moves, the same step has
\* published an "output" event, and the new watermark is the one that event's
\* batch gives: no batch is passed over unpublished.
C26_NoAdvanceWithoutPublication ==
    [][ \A id \in LogIds :
            pl[id].pc # "none" /\ pl'[id].last # pl[id].last =>
                /\ Len(sink'[id]) = Len(sink[id]) + 1
                /\ Last(sink'[id]).kind = "output"
                /\ pl'[id].last = MaxStamp(Last(sink'[id]).data) + 1 ]_vars

\* The threads whose terminal_close has popped session id and has still to
\* mark it Closed and to ask for the kill.
Closers(id) == { t \in Workers : th[t].pc = "cl_kill" /\ th[t].id = id }

\* C27: a close obtains the handle exactly when the id has an entry, and the
\* entry is gone in that step; so of all the closes of one id at most one
\* obtains the handle: at most one thread is between the pop and the kill,
\* none once the kill was requested, the kill is requested at most once and
\* exactly when the status is Closed; and every close returns ok.
C27_CloseIsAtomicPop ==
    [][ /\ \A t \in Workers :
              /\ th[t].pc = "idle" /\ th'[t].pc = "cl_kill" =>
                     /\ th'[t].id \in sessions
                     /\ th'[t].id \notin sessions'
              /\ CloseReturns(t) /\ th[t].pc = "idle" => th'[t].id \notin sessions
              /\ CloseReturns(t) => th'[t].res = Ok
        /\ \A id \in TermIds :
              /\ Cardinality(Closers(id)') + pty'[id].kills <= 1
              /\ (pty'[id].status = "Closed") <=> (pty'[id].kills = 1)
              /\ Closers(id)' # {} => id \notin sessions' ]_vars

\* Three threads have closed the same session: two have returned ok, the
\* third, which got the handle, has still to ask for the kill.
C27_Witness ==
    \E id \in TermIds : \E t \in Closers(id) :
        /\ pty[id].status = "Running"
        /\ \A u \in Workers \ {t} :
               /\ th[u].op = "close" /\ th[u].id = id
               /\ th[u].pc = "idle" /\ th[u].res = Ok

\* C28: a session in the registry has its reader field empty and its
\* streamer started; the streamer of a session starts once, in the create
\* that takes the reader, ends once and never starts again; and only a
\* step of the running streamer, which is no step of any command, moves the
\* read position of the stream or publishes an event.
C28_OneStreamerOwnsTheReader ==
    [][ \A id \in TermIds :
            /\ id \in sessions' => ~pty'[id].reader /\ stPc'[id] # "none"
            /\ pty'[id].status \in { "Running", "Closed" } => stPc'[id] # "none"
            /\ stPc'[id] # stPc[id] =>
                   << stPc[id], stPc'[id] >> \in
                       { << "none", "reading" >>, << "reading", "done" >> }
            /\ stPc[id] = "none" /\ stPc'[id] = "reading" =>
                   /\ pty[id].reader /\ ~pty'[id].reader
                   /\ \E t \in Threads :
                          /\ th[t].op = "create" /\ th[t].id = id
                          /\ th[t].pc = "c_start" /\ th'[t].pc = "c_register"
            /\ rd'[id] # rd[id] \/ events'[id] # events[id] =>
                   /\ stPc[id] = "reading"
                   /\ th' = th
                   /\ pty' = pty ]_vars

\* A registered session was written to after its streamer had ended: the
\* streamer stays ended.
C28_Witness ==
    \E id \in sessions :
        /\ stPc[id] = "done"
        /\ \E t \in Threads : th[t].pc = "w_io" /\ th[t].id = id
        /\ rd[id] > 0
        /\ ~pty[id].reader

\* C29: a step of the streamer changes no lock; a streamer that has bytes to
\* read, or the end of the stream, can take its step whoever holds the
\* session's lock or the map lock; and a write, resize, get, close or list
\* visit of the session whose lock is free can take its step wherever the
\* streamer is, also while it is blocked in its read.
C29_StreamerAndCallersIndependent ==
    [][ \A id \in TermIds :
            /\ rd'[id] # rd[id] \/ events'[id] # events[id] \/ stPc'[id] # stPc[id] =>
                   /\ mapLock' = mapLock
                   /\ sessLock' = sessLock
            /\ stPc[id] = "reading" /\ rd[id] < Len(out[id]) =>
                   ENABLED StreamRead(id, 1)
            /\ stPc[id] = "reading" /\ rd[id] = Len(out[id]) /\ child[id] = "dead" =>
                   ENABLED StreamEof(id)
            /\ \A t \in StreamThreads :
                   /\ th[t].id = id /\ sessLock[id] = "free" =>
                          /\ th[t].pc = "w_lock" => ENABLED WriteLock(t)
                          /\ th[t].pc = "r_do" => ENABLED ResizeDo(t)
                          /\ th[t].pc = "g_info" => ENABLED GetInfo(t)
                          /\ th[t].pc = "cl_kill" => ENABLED CloseKill(t)
                   /\ th[t].id = id /\ th[t].pc = "w_io" =>
                          ENABLED WriteIo(t, "ok", Len(B64Decode(th[t].data).bytes))
                   /\ th[t].pc = "l_visit" /\ id \in th[t].todo /\ sessLock[id] = "free" =>
                          ENABLED ListVisit(t, id) ]_vars

\* A caller holds the lock of a session inside write_to_pty while its
\* streamer has a byte to read and has published one already.
C29_Witness ==
    \E t \in StreamThreads :
        /\ th[t].pc = "w_io"
        /\ sessLock[th[t].id] = t
        /\ stPc[th[t].id] = "reading"
        /\ rd[th[t].id] = 1
        /\ Len(out[th[t].id]) = 2

\* C30: terminal_write returns ok exactly when write_all has passed on every
\* byte and flush has succeeded; the decoded bytes of the payload are then
\* the end of the child's input, in order, before the call returns; it
\* returns WriteFailed when write_all stops early or flush fails.
C30_WriteOkMeansWrittenAndFlushed ==
    [][ \A t \in Threads :
            th[t].pc = "w_io" /\ th'[t].pc = "idle" =>
                LET id == th[t].id
                    bytes == B64Decode(th[t].data).bytes
                IN
                /\ th'[t].res = Ok <=> WriteEnd(t, "ok")
                /\ th'[t].res = Ok =>
                       /\ wr[t] = Len(bytes)
                       /\ Len(pty[id].input) >= Len(bytes)
                       /\ LastBytes(pty[id].input, Len(bytes)) = bytes
                       /\ pty'[id].input = pty[id].input
                /\ th'[t].res # Ok =>
                       /\ th'[t].res = Err("WriteFailed")
                       /\ WriteEnd(t, "write_err") \/ WriteEnd(t, "flush_err")
                /\ WriteEnd(t, "write_err") <=> wr[t] < Len(bytes)
                /\ WriteEnd(t, "flush_err") =>
                       wr[t] = Len(bytes) /\ th'[t].res = Err("WriteFailed") ]_vars

\* Two writes on one session have returned: the first, of one byte, failed
\* at its flush, the second, of two bytes, returned ok.
C30_Witness ==
    \E t, u \in Threads :
        /\ th[t].op = "write" /\ th[t].pc = "idle" /\ th[t].res = Ok
        /\ th[u].op = "write" /\ th[u].pc = "idle" /\ th[u].res = Err("WriteFailed")
        /\ th[u].id = th[t].id
        /\ pty[th[t].id].input = << 10, 104, 105 >>

\* C31: a resize that finds its session goes on to resize_pty and returns ok;
\* that step sets the stored cols and rows of the session to the given ones
\* and changes nothing else: not its status, input, child, reader or the size
\* of the terminal device, not the registry, not any other session. A session
\* is created with geometry 80 x 24, stored and on the device.
C31_ResizeIsBookkeeping ==
    [][ /\ \A t \in Threads :
              /\ th[t].pc = "idle" /\ th'[t] # th[t] /\ th'[t].op = "resize"
                   /\ th'[t].id \in sessions
                     => th'[t].pc = "r_do"
              /\ th[t].pc = "r_do" /\ th'[t] # th[t] =>
                     /\ th'[t].pc = "idle" /\ th'[t].res = Ok
                     /\ pty' = [pty EXCEPT ![th[t].id].cols = th[t].geom[1],
                                           ![th[t].id].rows = th[t].geom[2]]
                     /\ UNCHANGED << sessions, mapLock, sessLock, child, out, rd,
                                     stPc, events >>
        /\ \A id \in TermIds :
              pty[id].status = "None" /\ pty'[id].status # "None" =>
                  /\ pty'[id].cols = DEFAULT_COLS /\ pty'[id].rows = DEFAULT_ROWS
                  /\ pty'[id].win = << DEFAULT_COLS, DEFAULT_ROWS >> ]_vars

\* A registered session was resized to 132 x 43 and the call returned ok: its
\* device still has 80 x 24, and the other session has its first geometry.
C31_Witness ==
    \E id \in sessions, t \in Threads :
        /\ th[t].op = "resize" /\ th[t].pc = "idle" /\ th[t].res = Ok
        /\ th[t].id = id
        /\ pty[id].cols = 132 /\ pty[id].rows = 43
        /\ pty[id].win = << DEFAULT_COLS, DEFAULT_ROWS >>
        /\ pty[id].status = "Running"
        /\ \E j \in sessions : j # id /\ pty[j].cols = DEFAULT_COLS

\* ------------------------------------ terminal_create_session: command line
\* format!("{}", n) of an unsigned integer: its decimal digits.
RECURSIVE Decimal(_)
Decimal(n) ==
    LET digit == << "0", "1", "2", "3", "4", "5", "6", "7", "8", "9" >> IN
    IF n < 10 THEN << digit[n + 1] >>
    ELSE Decimal(n \div 10) \o << digit[(n % 10) + 1] >>

\* Mutant: the two ports change places.
PortParametersSwapped(remote_port, local_port) ==
    << "portNumber=" >> \o Decimal(local_port)
        \o << ",localPortNumber=" >> \o Decimal(remote_port)

\* "portNumber={},localPortNumber={}" of (remote_port, local_port), as the
\* pieces of the text in order.
PortParameters(remote_port, local_port) ==
    << "portNumber=" >> \o Decimal(remote_port)
        \o << ",localPortNumber=" >> \o Decimal(local_port)

\* The match on input.session_type: the program and its arguments.
CommandLine(i) ==
    IF i.kind = "EcsExec" THEN
        [command |-> "aws",
         args |-> << "ecs", "execute-command", "--cluster", i.cluster,
                     "--task", i.task, "--container", i.container,
                     "--interactive", "--command", i.shell,
                     "--profile", i.profile, "--region", i.region >>]
    ELSE IF i.kind = "SsmSession" THEN
        [command |-> "aws",
         args |-> << "ssm", "start-session", "--target", i.instance_id,
                     "--profile", i.profile, "--region", i.region >>]
    ELSE IF i.kind = "SsmPortForwarding" THEN
        [command |-> "aws",
         args |-> << "ssm", "start-session", "--target", i.instance_id >>
                  \o (IF i.remote_host # {}
                      THEN << "--document-name",
                              "AWS-StartPortForwardingSessionToRemoteHost",
                              "--parameters",
                              << "host=", CHOOSE h \in i.remote_host : TRUE, "," >>
                                  \o PortParameters(i.remote_port, i.local_port) >>
                      ELSE << "--document-name",
                              "AWS-StartPortForwardingSession",
                              "--parameters",
                              PortParameters(i.remote_port, i.local_port) >>)
                  \o << "--profile", i.profile, "--region", i.region >>]
    ELSE [command |-> i.shell, args |-> <<>>]

\* The inputs of terminal_create_session: every session type; an Option is
\* the empty set or a set of one value; ports are u16.
CmdInputs ==
    [kind : { "EcsExec", "SsmSession", "SsmPortForwarding", "Local" },
     cluster : { "c1" }, task : { "t1" }, container : { "app" },
     instance_id : { "i-0a", "i-0b" },
     local_port : { 0, 5432, 65535 }, remote_port : { 22, 5432 },
     remote_host : { {}, { "" }, { "db.internal" } },
     shell : { "/bin/sh" },
     profile : { "dev" }, region : { "eu-west-1", "us-east-1" }]

CmdInit ==
    /\ TermBase /\ calls = 0 /\ LogInit
    /\ regMap = [k \in RegKeys |-> NoObj]
    /\ regObjs = <<>>
    /\ regCall = NoCall
    /\ wr = [t \in Threads |-> 0]
    /\ \E i \in CmdInputs : cmd = [input |-> {i}, built |-> {}]

\* let (command, args) = match &input.session_type { .. }
BuildCommand ==
    /\ cmd.built = {}
    /\ cmd' = [cmd EXCEPT !.built = { CommandLine(i) : i \in cmd.input }]
    /\ UNCHANGED << regMap, regObjs, regCall, wr, termVars, logVars >>

\* The command line of every input.
SpecCmd == CmdInit /\ [][BuildCommand]_vars

\* C32: the command line built for a port-forward session is aws with the
\* arguments ssm start-session --target I --document-name D --parameters P
\* --profile Pr --region R; with a remote host H, D is the to-remote-host
\* document and P is host=H, followed by the port clause; without one, D is
\* the local port-forwarding document and P is the port clause; the port
\* clause is portNumber=<remote_port>,localPortNumber=<local_port>.
C32_PortForwardCommandLine ==
    \A i \in cmd.input, c \in cmd.built :
        i.kind = "SsmPortForwarding" =>
            LET P == c.args[8]
                ports == << "portNumber=" >> \o Decimal(i.remote_port)
                            \o << ",localPortNumber=" >> \o Decimal(i.local_port)
            IN
            /\ c.command = "aws"
            /\ Len(c.args) = 12
            /\ SubSeq(c.args, 1, 5) =
                   << "ssm", "start-session", "--target", i.instance_id,
                      "--document-name" >>
            /\ c.args[7] = "--parameters"
            /\ SubSeq(c.args, 9, 12) =
                   << "--profile", i.profile, "--region", i.region >>
            /\ IF i.remote_host # {}
               THEN /\ c.args[6] = "AWS-StartPortForwardingSessionToRemoteHost"
                    /\ \E h \in i.remote_host :
                           P = << "host=", h, "," >> \o ports
               ELSE /\ c.args[6] = "AWS-StartPortForwardingSession"
                    /\ P = ports
            /\ (P[1] = "host=") <=> (i.remote_host # {})
            /\ Decimal(5432) = << "5", "4", "3", "2" >>

\* The command line of a port forward to a remote host was built.
C32_Witness ==
    \E i \in cmd.input, c \in cmd.built :
        /\ i.kind = "SsmPortForwarding"
        /\ i.remote_host = { "db.internal" }
        /\ i.local_port = 65535 /\ i.remote_port = 22
        /\ c.args[8][2] = "db.internal"

\* The next step of the command thread t is in: every step of a command but
\* its first.
WorkerStep(t) ==
    \/ CreateStart(t)
    \/ CreateRegister(t)
    \/ WriteLock(t)
    \/ \E o \in WriteOutcomes :
          \E w \in 0..Len(B64Decode(th[t].data).bytes) : WriteIo(t, o, w)
    \/ ResizeDo(t)
    \/ CloseKill(t)
    \/ GetInfo(t)
    \/ \E id \in TermIds : ListVisit(t, id)
    \/ ListEnd(t)

\* Three threads with two calls of write, resize, close, get or list among
\* them and any number of creates; a thread inside a command is scheduled
\* fairly (it runs on a worker of the runtime and blocks on nothing but the
\* locks).
FairContendInit == ContendFields /\ calls = MaxFairCalls
FairContend ==
    /\ FairContendInit
    /\ [][ContendNext]_vars
    /\ \A t \in Workers : WF_vars(WorkerStep(t))

C34_StreamerEndChangesNothing ==
    [][ \A id \in TermIds :
            /\ stPc[id] = "reading" /\ stPc'[id] = "done" =>
                   /\ Terminal(Last(events'[id]))
                   /\ UNCHANGED << sessions, pty, mapLock, sessLock, th, child >>
            /\ stPc[id] = "done" =>
                   /\ id \in sessions => pty[id].status = "Running"
                   /\ id \in sessions /\ id \notin sessions' =>
                          \E t \in StreamThreads :
                              /\ th[t].pc = "idle" /\ th'[t].pc = "cl_kill"
                              /\ th'[t].op = "close" /\ th'[t].id = id
                   /\ pty'[id].status # pty[id].status =>
                          /\ pty'[id].status = "Closed" /\ id \notin sessions
                          /\ \E t \in StreamThreads :
                                 /\ th[t].pc = "cl_kill" /\ th[t].id = id
                                 /\ th'[t].pc = "idle"
                   /\ \A t \in StreamThreads :
                          /\ id \in sessions /\ th[t].pc = "idle" /\ th'[t] # th[t]
                               /\ th'[t].op = "get" /\ th'[t].id = id
                                 => th'[t].pc = "g_info"
                          /\ id \in sessions /\ th[t].pc = "idle"
                               /\ th'[t].pc = "l_visit"
                                 => id \in th'[t].todo ]_vars

\* The child of a registered session has exited and its streamer has
\* published "closed" and ended; the one call made so far, a get of the
\* session, has returned its summary, with status Running.
C34_Witness ==
    \E id \in sessions, t \in StreamThreads :
        /\ stPc[id] = "done" /\ child[id] = "dead"
        /\ Last(events[id]).kind = "closed"
        /\ pty[id].status = "Running"
        /\ calls = MaxStreamCalls - 1
        /\ th[t].op = "get" /\ th[t].pc = "idle" /\ th[t].id = id
        /\ th[t].res.tag = "ok"
        /\ \A i \in th[t].res.val : i.status = "Running"

\* C35: every session in the map of the terminal registry is Running; a
\* session that is being created and is not yet in the map is Starting or
\* Running, a Closed one is in the map no more; and every summary a list has
\* collected or returned says Running.
C35_RegisteredIsRunning ==
    /\ \A id \in sessions : pty[id].status = "Running"
    /\ \A id \in TermIds : pty[id].status = "Closed" => id \notin sessions
    /\ \A t \in Threads :
          /\ th[t].pc = "c_register" => pty[th[t].id].status = "Running"
          /\ th[t].pc = "c_start" =>
                 pty[th[t].id].status = "Starting" /\ th[t].id \notin sessions
          /\ th[t].op = "list" =>
                 /\ \A r \in th[t].snap \cup th[t].res.val : r.status = "Running"
                 /\ th[t].todo \subseteq sessions

\* One session was closed and is out of the map, the other is in it; a list
\* has returned the summary of that one alone, Running, while the other
\* thread is in the second step of a close of the first.
C35_Witness ==
    \E t, u \in Threads, a, b \in TermIds :
        /\ pty[a].status = "Running" /\ a \notin sessions
        /\ th[u].pc = "cl_kill" /\ th[u].id = a
        /\ sessions = {b}
        /\ th[t].op = "list" /\ th[t].pc = "idle"
        /\ th[t].res.val = { Info(pty[b], b) }
        /\ pty[b].status = "Running"

\* C36: a terminal_get_session that has returned has returned not-found or a
\* summary that says Running, whatever close ran beside it; in the step in
\* which a get returns a summary, the summary does not say Closed when the
\* session is out of the map.
C36_GetNeverReturnsClosed ==
    [][ \A t \in Threads :
            th'[t].op = "get" /\ th'[t].pc = "idle" =>
                /\ th'[t].res.tag \in { "ok", "NotFound" }
                /\ th'[t].res.tag = "ok" =>
                       \A r \in th'[t].res.val :
                           /\ r.status = "Running"
                           /\ ~(r.status = "Closed" /\ r.id \notin sessions') ]_vars

\* C37: when stop_session has returned before the poller made its first
\* loop-top check, the poller never builds or issues a query (it is not yet
\* spawned, or at the loop top, or has ended), nothing but "stopped" is ever
\* published for the session, and the poller's one check ends the task with
\* exactly that event.
C37_EarlyStopMeansNoQuery ==
    [][ \A id \in LogIds :
            /\ hist[id].first = "stop" =>
                   /\ hist[id].stopped /\ lts[id].stop_signal
                   /\ pl[id].pc \in { "none", "top", "done" }
                   /\ pl[id].since = 0
                   /\ hist[id].issued = 0 /\ hist[id].outs = 0
                   /\ sink[id] = IF pl[id].pc = "done"
                                 THEN << [kind |-> "stopped", data |-> {},
                                          text |-> <<>>] >>
                                 ELSE <<>>
                   /\ pl'[id].pc \in { pl[id].pc, "done" }
            /\ hist[id].first = "none" /\ hist'[id].first = "stop" =>
                   /\ pl[id].pc \in { "none", "top" }
                   /\ sink[id] = <<>>
                   /\ hist'[id].first = "stop" ]_vars

\* A session was stopped before its poller looked at the signals; the poller
\* has ended and "stopped" is all it published, while the log group holds
\* events it could have fetched and queries are still allowed.
C37_Witness ==
    \E id \in LogIds :
        /\ hist[id].first = "stop"
        /\ pl[id].pc = "done"
        /\ Len(sink[id]) = 1 /\ sink[id][1].kind = "stopped"
        /\ logGroup # {}
        /\ polls > 0

\* C38 (as claimed): a log-tail session whose flag is set or whose one-shot
\* was fired is not in the registry; the step that sets the flag finds the
\* entry removed already; a list collects and returns no cancelled session;
\* and a create returns with its entry registered, its flag unset and its
\* poller spawned.
C38_CancelledIsUnregistered ==
    [][ /\ \A id \in LogIds :
              /\ lts'[id].stop_signal \/ chan'[id] # "empty" =>
                     id \notin logSessions'
              /\ ~lts[id].stop_signal /\ lts'[id].stop_signal =>
                     id \notin logSessions
        /\ \A t \in Threads :
              /\ \A r \in lth'[t].snap \ lth[t].snap : ~lts[r.id].stop_signal
              /\ lth[t].pc = "ll_visit" /\ lth'[t].pc = "idle" =>
                     \A r \in lth'[t].res.val :
                         ~lts'[r.id].stop_signal /\ chan'[r.id] = "empty"
              /\ lth[t].pc = "lc_spawn" /\ lth'[t].pc = "idle" =>
                     /\ lth[t].id \in logSessions'
                     /\ ~lts'[lth[t].id].stop_signal
                     /\ pl'[lth[t].id].pc = "top" ]_vars

\* C38 (amended): as above, but a create returns with its poller spawned and
\* with its entry either registered, the flag unset, or popped by a
\* stop_session of that id that ran since the insert (and has set the flag
\* or is about to).
C38_CancelledIsUnregisteredButForEarlyStop ==
    [][ /\ \A id \in LogIds :
              /\ lts'[id].stop_signal \/ chan'[id] # "empty" =>
                     id \notin logSessions'
              /\ ~lts[id].stop_signal /\ lts'[id].stop_signal =>
                     id \notin logSessions
        /\ \A t \in Threads :
              /\ \A r \in lth'[t].snap \ lth[t].snap : ~lts[r.id].stop_signal
              /\ lth[t].pc = "ll_visit" /\ lth'[t].pc = "idle" =>
                     \A r \in lth'[t].res.val :
                         ~lts'[r.id].stop_signal /\ chan'[r.id] = "empty"
              /\ lth[t].pc = "lc_spawn" /\ lth'[t].pc = "idle" =>
                     /\ pl'[lth[t].id].pc = "top"
                     /\ lth'[t].res = [tag |-> "ok", val |-> { lth[t].id }]
                     /\ IF lth[t].id \in logSessions'
                        THEN ~lts'[lth[t].id].stop_signal
                               /\ chan'[lth[t].id] = "empty"
                        ELSE \/ lts'[lth[t].id].stop_signal
                             \/ \E u \in Threads \ {t} :
                                   /\ lth[u].pc = "ls_stop"
                                   /\ lth[u].id = lth[t].id ]_vars

\* A create has returned the id of a session that another thread had stopped
\* in the meantime: flag set, one-shot fired, the entry gone, the poller
\* spawned; the other session is registered and not cancelled.
C38_Witness ==
    \E t \in Threads, a, b \in LogIds :
        /\ lth[t].op = "start" /\ lth[t].pc = "idle"
        /\ lth[t].res = [tag |-> "ok", val |-> {a}]
        /\ a \notin logSessions
        /\ lts[a].stop_signal /\ chan[a] = "sent"
        /\ pl[a].pc = "top"
        /\ b \in logSessions /\ ~lts[b].stop_signal

====
